---- MODULE Spec2Model ----
(***************************************************************************)
(* A model of gqlhash: the parser package (ReadDocument and the Read*      *)
(* functions it calls) and the gqlhash package (AppendQueryHash, Compare). *)
(*                                                                         *)
(* A byte is its value 0..255, a []byte is a sequence of bytes.  The Go    *)
(* code passes the remaining input as a slice `s` and returns the          *)
(* unconsumed `suffix`; the operators below do the same with sequences.    *)
(* The digest h is modelled after the recording hash of the tests: the     *)
(* sequence of the chunks written since the last Reset.                    *)
(***************************************************************************)
EXTENDS Integers, Sequences, FiniteSets, TLC

(***************************************************************************)
(* Go slice expressions, with Go's 0-based indexes.                        *)
(***************************************************************************)
At(s, i) == s[i + 1]                          \* s[i]
From(s, lo) == SubSeq(s, lo + 1, Len(s))      \* s[lo:]
Slice(s, lo, hi) == SubSeq(s, lo + 1, hi)     \* s[lo:hi]
Consumed(s, suffix) == SubSeq(s, 1, Len(s) - Len(suffix)) \* s[:len(s)-len(suffix)]

(***************************************************************************)
(* The byte literals of the source.                                        *)
(***************************************************************************)
Ch_tab == 9
Ch_lf == 10
Ch_cr == 13
Ch_space == 32
Ch_bang == 33
Ch_quote == 34
Ch_hash == 35
Ch_dollar == 36
Ch_lparen == 40
Ch_rparen == 41
Ch_plus == 43
Ch_comma == 44
Ch_minus == 45
Ch_dot == 46
Ch_slash == 47
Ch_zero == 48
Ch_colon == 58
Ch_equals == 61
Ch_at == 64
Ch_upperE == 69
Ch_lbracket == 91
Ch_backslash == 92
Ch_rbracket == 93
Ch_underscore == 95
Ch_lowerB == 98
Ch_lowerE == 101
Ch_lowerF == 102
Ch_lowerN == 110
Ch_lowerR == 114
Ch_lowerT == 116
Ch_lowerU == 117
Ch_lbrace == 123
Ch_rbrace == 125

\* The string literals of the source, as bytes.
StrQuery == <<113, 117, 101, 114, 121>>
StrMutation == <<109, 117, 116, 97, 116, 105, 111, 110>>
StrSubscription == <<115, 117, 98, 115, 99, 114, 105, 112, 116, 105, 111, 110>>
StrFragment == <<102, 114, 97, 103, 109, 101, 110, 116>>
StrOn == <<111, 110>>
StrOnSpace == <<111, 110, 32>>
StrNull == <<110, 117, 108, 108>>
StrTrue == <<116, 114, 117, 101>>
StrFalse == <<102, 97, 108, 115, 101>>
StrDots == <<46, 46, 46>>
StrQuotes == <<34, 34, 34>>

\* The errors of the two packages; Panic is a Go run-time panic (an index or
\* a slice bound out of range), which is no error value of the program.
nil == "nil"
ErrUnexpectedEOF == "unexpected EOF"
ErrUnexpectedToken == "unexpected token"
ErrQueriesDiffer == "queries differ"
Panic == "panic"
\* What one pass of a loop answers when the loop goes on to another pass.
Continue == "continue"

\* The hash prefixes.
HPrefQuery == <<1>>
HPrefMutation == <<2>>
HPrefSubscription == <<3>>
HPrefFragmentDefinition == <<4>>
HPrefVariableDefinition == <<5>>
HPrefDirective == <<6>>
HPrefFieldMissing == <<>>
HPrefField == <<7>>
HPrefType == <<8>>
HPrefFieldAliasedName == <<11>>
HPrefFragmentSpread == <<12>>
HPrefInlineFragment == <<14>>
HPrefArgument == <<15>>
HPrefSelectionSet == <<17>>
HPrefSelectionSetReopened == <<17>>
HPrefSelectionSetEnd == <<18>>
HPrefValueInputObject == <<19>>
HPrefValueInputObjectField == <<20>>
HPrefInputObjectEnd == <<21>>
HPrefValueNull == <<22>>
HPrefValueTrue == <<23>>
HPrefValueFalse == <<24>>
HPrefValueInteger == <<25>>
HPrefValueFloat == <<26>>
HPrefValueEnum == <<27>>
HPrefValueString == <<28>>
HPrefValueList == <<29>>
HPrefValueListEnd == <<30>>
HPrefValueVariable == <<31>>

\* h.Write(data) of the recording hash: one more chunk.
Write(h, data) == Append(h, data)

\* What a Read* function leaves behind: the suffix, the error and the digest.
Res(s, err, h) == [s |-> s, err |-> err, h |-> h]

(***************************************************************************)
(* Lexical primitives.                                                     *)
(***************************************************************************)
lutLetter == (65 .. 90) \cup (97 .. 122)
lutDigit == 48 .. 57
lutHex == (48 .. 57) \cup (97 .. 102) \cup (65 .. 70)

IsWhiteSpace(b) == b = Ch_space \/ b = Ch_tab
IsIgnorableByte(b) == b \in {Ch_space, Ch_comma, Ch_tab, Ch_lf, Ch_cr}
IsNameStart(b) == b \in lutLetter \/ b = Ch_underscore
IsLetter(b) == b \in lutLetter
IsDigit(b) == b \in lutDigit
IsHexByte(b) == b \in lutHex

HasPrefix(s, prefix) ==
  Len(s) >= Len(prefix) /\ Slice(s, 0, Len(prefix)) = prefix

ExpectNoEOF(s) == IF Len(s) < 1 THEN ErrUnexpectedEOF ELSE nil

\* The index at which the comment starting at s[0] = '#' ends.
RECURSIVE CommentEnd(_, _)
CommentEnd(s, i) ==
  IF i < Len(s) /\ At(s, i) # Ch_lf THEN CommentEnd(s, i + 1) ELSE i

\* SkipIgnorables stopping at a comment.
RECURSIVE SkipIgnorablesNoComments(_)
SkipIgnorablesNoComments(s) ==
  IF Len(s) > 0 /\ At(s, 0) \in {Ch_space, Ch_comma, Ch_tab, Ch_lf, Ch_cr}
    THEN SkipIgnorablesNoComments(From(s, 1))
    ELSE s

\* One pass of the loop of SkipIgnorables, s not empty.
SkipIgnorablesPass(s) ==
  IF At(s, 0) \in {Ch_space, Ch_comma, Ch_tab, Ch_lf, Ch_cr}
    THEN [s |-> From(s, 1), err |-> Continue]
  ELSE IF At(s, 0) = Ch_hash
    THEN [s |-> From(s, CommentEnd(s, 1)), err |-> Continue]
  ELSE [s |-> s, err |-> nil]

RECURSIVE SkipIgnorables(_)
SkipIgnorables(s) ==
  IF Len(s) = 0 THEN s
  ELSE LET Step(p) == IF p.err = Continue THEN SkipIgnorables(p.s) ELSE p.s
       IN Step(SkipIgnorablesPass(s))

\* The suffix after the letters, digits and underscores at the start of s.
RECURSIVE NameRest(_)
NameRest(suffix) ==
  IF Len(suffix) > 0
     /\ (IsLetter(At(suffix, 0)) \/ IsDigit(At(suffix, 0))
         \/ At(suffix, 0) = Ch_underscore)
    THEN NameRest(From(suffix, 1))
    ELSE suffix

ReadName(s) ==
  IF Len(s) < 1 THEN [name |-> <<>>, s |-> <<>>, err |-> ErrUnexpectedEOF]
  ELSE IF ~IsNameStart(At(s, 0))
    THEN [name |-> <<>>, s |-> s, err |-> ErrUnexpectedToken]
  ELSE LET suffix == NameRest(From(s, 1))
       IN [name |-> Consumed(s, suffix), s |-> suffix, err |-> nil]

ReadToken(s, token) ==
  IF ExpectNoEOF(s) # nil THEN [s |-> s, err |-> ErrUnexpectedEOF]
  ELSE IF ~HasPrefix(s, token) THEN [s |-> s, err |-> ErrUnexpectedToken]
  ELSE [s |-> From(s, Len(token)), err |-> nil]

(***************************************************************************)
(* Numbers.                                                                *)
(***************************************************************************)
\* The suffix after the digits at the start of s.
RECURSIVE DigitsRest(_)
DigitsRest(suffix) ==
  IF Len(suffix) > 0 /\ IsDigit(At(suffix, 0))
    THEN DigitsRest(From(suffix, 1))
    ELSE suffix

\* ReadIntValue is called with s[0] a digit or '-'.
ReadIntValue(s) ==
  LET neg == At(s, 0) = Ch_minus
      afterSign == IF neg THEN From(s, 1) ELSE s
  IN IF neg /\ ExpectNoEOF(afterSign) # nil
       THEN [value |-> <<>>, s |-> s, err |-> ErrUnexpectedEOF]
     ELSE IF At(afterSign, 0) = Ch_zero
       THEN LET suffix == From(afterSign, 1)
            IN [value |-> Consumed(s, suffix), s |-> suffix, err |-> nil]
     ELSE LET suffix == DigitsRest(afterSign)
          IN [value |-> Consumed(s, suffix), s |-> suffix, err |-> nil]

ReadFloatAfterInteger(s) ==
  LET hasDot == Len(s) > 0 /\ At(s, 0) = Ch_dot
      before == IF hasDot THEN From(s, 1) ELSE s
      afterFrac == IF hasDot THEN DigitsRest(before) ELSE s
      hasExp == Len(afterFrac) > 0
                /\ (At(afterFrac, 0) = Ch_lowerE \/ At(afterFrac, 0) = Ch_upperE)
      afterE == From(afterFrac, 1)
      afterSign == IF Len(afterE) > 0
                      /\ (At(afterE, 0) = Ch_minus \/ At(afterE, 0) = Ch_plus)
                     THEN From(afterE, 1) ELSE afterE
      suffix == IF hasExp THEN DigitsRest(afterSign) ELSE afterFrac
  IN IF hasDot /\ Len(before) = Len(afterFrac)
       THEN [value |-> <<>>, s |-> afterFrac, err |-> ErrUnexpectedToken]
       ELSE [value |-> Consumed(s, suffix), s |-> suffix, err |-> nil]

(***************************************************************************)
(* Strings.                                                                *)
(***************************************************************************)
RECURSIVE StringLineScan(_, _)
StringLineScan(s, i) ==
  IF i >= Len(s) THEN [value |-> s, s |-> <<>>, err |-> ErrUnexpectedEOF]
  ELSE IF At(s, i) = Ch_quote
    THEN [value |-> Slice(s, 0, i), s |-> From(s, i + 1), err |-> nil]
  ELSE IF At(s, i) = Ch_backslash
    THEN IF i + 1 >= Len(s)
           THEN [value |-> Slice(s, 0, i), s |-> From(s, i),
                 err |-> ErrUnexpectedEOF]
         ELSE IF At(s, i + 1) \in {Ch_quote, Ch_backslash, Ch_slash, Ch_lowerB,
                                   Ch_lowerF, Ch_lowerN, Ch_lowerR, Ch_lowerT}
           THEN StringLineScan(s, i + 2)
         ELSE IF At(s, i + 1) = Ch_lowerU
           THEN IF i + 5 >= Len(s)
                  THEN [value |-> Slice(s, 0, i + 1), s |-> From(s, i + 1),
                        err |-> ErrUnexpectedEOF]
                ELSE IF ~IsHexByte(At(s, i + 2)) \/ ~IsHexByte(At(s, i + 3))
                        \/ ~IsHexByte(At(s, i + 4)) \/ ~IsHexByte(At(s, i + 5))
                  THEN [value |-> Slice(s, 0, i + 1), s |-> From(s, i + 1),
                        err |-> ErrUnexpectedToken]
                ELSE StringLineScan(s, i + 5)
         ELSE [value |-> s, s |-> From(s, i), err |-> ErrUnexpectedToken]
  ELSE IF At(s, i) < 32
    THEN [value |-> s, s |-> <<>>, err |-> ErrUnexpectedToken]
  ELSE StringLineScan(s, i + 1)

ReadStringLineAfterQuotes(s) == StringLineScan(s, 0)

\* The index after the WhiteSpace bytes that start at s[i].
RECURSIVE WhiteSpaceEnd(_, _)
WhiteSpaceEnd(s, i) ==
  IF i < Len(s) /\ IsWhiteSpace(At(s, i)) THEN WhiteSpaceEnd(s, i + 1) ELSE i

\* The loop of ReadStringBlockAfterQuotes at index i.  found and first are
\* firstNonWhiteSpaceAndNewLineFound and firstNonWhiteSpaceAndNewLine; the
\* value is nil or s[:i+3], of which the caller only reads whether it is nil.
RECURSIVE StringBlockScan(_, _, _, _, _, _)
StringBlockScan(s, i, prefixLen, prefixLenSet, found, first) ==
  IF i >= Len(s)
    THEN [valueNil |-> TRUE, prefixLen |-> prefixLen, s |-> <<>>,
          err |-> ErrUnexpectedEOF]
  ELSE LET b == At(s, i)
           firstSet == IF found THEN first ELSE i
       IN
    IF b = Ch_quote
      THEN IF i + 2 < Len(s) /\ At(s, i + 1) = Ch_quote /\ At(s, i + 2) = Ch_quote
             THEN [valueNil |-> ~(found /\ first # i), prefixLen |-> prefixLen,
                   s |-> From(s, i + 3), err |-> nil]
             ELSE StringBlockScan(s, i + 1, prefixLen, prefixLenSet, TRUE, firstSet)
    ELSE IF b = Ch_backslash
      THEN IF i + 3 < Len(s) /\ At(s, i + 1) = Ch_quote
              /\ At(s, i + 2) = Ch_quote /\ At(s, i + 3) = Ch_quote
             THEN StringBlockScan(s, i + 4, prefixLen, prefixLenSet, TRUE, firstSet)
             ELSE StringBlockScan(s, i + 1, prefixLen, prefixLenSet, TRUE, firstSet)
    ELSE IF b = Ch_lf
      THEN LET j == WhiteSpaceEnd(s, i + 1)
               c == j - (i + 1)
               set == j < Len(s) /\ ~IsWhiteSpace(At(s, j)) /\ At(s, j) # Ch_lf
               isLastLine == j + 2 < Len(s) /\ At(s, j + 1) = Ch_quote
                             /\ At(s, j + 2) = Ch_quote
               newLen == IF isLastLine THEN prefixLen
                         ELSE IF prefixLenSet
                           THEN (IF c < prefixLen THEN c ELSE prefixLen)
                         ELSE c
           IN StringBlockScan(s, j, newLen, prefixLenSet \/ ~isLastLine,
                              found \/ set,
                              IF ~found /\ set THEN j ELSE first)
    ELSE IF b = Ch_space \/ b = Ch_tab
      THEN StringBlockScan(s, i + 1, prefixLen, prefixLenSet, found, first)
    ELSE IF b < 32
      THEN [valueNil |-> TRUE, prefixLen |-> prefixLen, s |-> <<>>,
            err |-> ErrUnexpectedToken]
    ELSE StringBlockScan(s, i + 1, prefixLen, prefixLenSet, TRUE, firstSet)

ReadStringBlockAfterQuotes(s) == StringBlockScan(s, 0, 0, FALSE, FALSE, 0)

\* len(bytes.TrimSpace(line)) != 0, for the ASCII bytes of the model.
NotBlank(line) ==
  \E k \in 1 .. Len(line) : line[k] \notin {9, 10, 11, 12, 13, 32}

\* The loop of TrimEmptyLinesSuffix at index i with the end e.
RECURSIVE TrimScan(_, _, _)
TrimScan(s, i, e) ==
  IF i < 0 THEN e
  ELSE IF At(s, i) = Ch_lf
    THEN IF NotBlank(Slice(s, i + 1, e)) THEN e ELSE TrimScan(s, i - 1, i)
  ELSE IF i = 0
    THEN IF NotBlank(Slice(s, i, e)) THEN e ELSE TrimScan(s, i - 1, i)
  ELSE TrimScan(s, i - 1, e)

TrimEmptyLinesSuffix(s) == Slice(s, 0, TrimScan(s, Len(s) - 1, Len(s)))

\* The index of the next line break at or after s[i], or len(s).
RECURSIVE LineEnd(_, _)
LineEnd(s, i) ==
  IF i < Len(s) /\ At(s, i) # Ch_lf THEN LineEnd(s, i + 1) ELSE i

\* The index after at most prefixLen WhiteSpace bytes from s[i].
RECURSIVE PrefixEnd(_, _, _, _)
PrefixEnd(s, i, skipped, prefixLen) ==
  IF i < Len(s) /\ skipped < prefixLen /\ IsWhiteSpace(At(s, i))
    THEN PrefixEnd(s, i + 1, skipped + 1, prefixLen)
    ELSE i

\* The second loop of IterateBlockStringLines at index i: the lines yielded.
RECURSIVE IterateRest(_, _, _)
IterateRest(s, prefixLen, i) ==
  IF i >= Len(s) THEN <<>>
  ELSE LET start == i
           e == LineEnd(s, PrefixEnd(s, i, 0, prefixLen))
           line == IF e < Len(s) /\ At(s, e) = Ch_lf
                     THEN Slice(s, start + prefixLen, e + 1)
                     ELSE Slice(s, start + prefixLen, e)
       IN (IF e >= start + prefixLen THEN <<line>> ELSE <<>>)
          \o IterateRest(s, prefixLen, e + 1)

\* The lines IterateBlockStringLines yields when the consumer takes them all.
IterateBlockStringLines(s, prefixLen) ==
  LET e == LineEnd(s, 0)
      firstLineIsEmpty == \A k \in 0 .. e - 1 : IsWhiteSpace(At(s, k))
      firstLine == IF e < Len(s) /\ At(s, e) = Ch_lf
                     THEN Slice(s, 0, e + 1) ELSE Slice(s, 0, e)
  IN (IF firstLineIsEmpty THEN <<>> ELSE <<firstLine>>)
     \o IterateRest(s, prefixLen, e + 1)

\* h after writing each of the lines.
RECURSIVE WriteAll(_, _)
WriteAll(h, lines) ==
  IF lines = <<>> THEN h ELSE WriteAll(Write(h, Head(lines)), Tail(lines))

(***************************************************************************)
(* Types.                                                                  *)
(***************************************************************************)
RECURSIVE ReadType(_)
ReadType(s) ==
  IF ExpectNoEOF(s) # nil
    THEN [typeDef |-> <<>>, nullable |-> TRUE, array |-> FALSE, s |-> s,
          err |-> ErrUnexpectedEOF]
  ELSE
    LET array == ~IsNameStart(At(s, 0)) /\ At(s, 0) = Ch_lbracket
        elem == ReadType(SkipIgnorables(From(s, 1)))
        afterElem == SkipIgnorables(elem.s)
        inner ==
          IF IsNameStart(At(s, 0))
            THEN LET n == ReadName(s) IN [s |-> n.s, err |-> n.err]
          ELSE IF At(s, 0) = Ch_lbracket
            THEN IF elem.err # nil THEN [s |-> elem.s, err |-> elem.err]
                 ELSE IF ExpectNoEOF(afterElem) # nil
                   THEN [s |-> afterElem, err |-> ErrUnexpectedEOF]
                 ELSE IF At(afterElem, 0) # Ch_rbracket
                   THEN [s |-> afterElem, err |-> ErrUnexpectedToken]
                 ELSE [s |-> From(afterElem, 1), err |-> nil]
          ELSE [s |-> s, err |-> ErrUnexpectedToken]
        skipped == SkipIgnorables(inner.s)
        bang == Len(skipped) > 0 /\ At(skipped, 0) = Ch_bang
        suffix == IF bang THEN From(skipped, 1) ELSE inner.s
    IN IF inner.err # nil
         THEN [typeDef |-> <<>>, nullable |-> TRUE, array |-> array,
               s |-> inner.s, err |-> inner.err]
         ELSE [typeDef |-> Consumed(s, suffix), nullable |-> ~bang,
               array |-> array, s |-> suffix, err |-> nil]

(***************************************************************************)
(* Values.                                                                 *)
(***************************************************************************)
ValueTypeInt == "Int"
ValueTypeFloat == "Float"
ValueTypeString == "String"
ValueTypeStringBlock == "StringBlock"
ValueTypeBooleanTrue == "BooleanTrue"
ValueTypeBooleanFalse == "BooleanFalse"
ValueTypeNull == "Null"
ValueTypeEnum == "Enum"
ValueTypeList == "List"
ValueTypeInputObject == "InputObject"
ValueTypeVariable == "Variable"
ValueTypeZero == "0"

Val(value, valueType, s, err, h) ==
  [value |-> value, valueType |-> valueType, s |-> s, err |-> err, h |-> h]

\* The functions of the parser call one another recursively: Call(fn, h, s)
\* is the call fn(h, s) of the function named fn.
RECURSIVE Call(_, _, _)
RECURSIVE ReadValue(_, _)
RECURSIVE ListLoop(_, _, _)
RECURSIVE InputObjectLoop(_, _, _)

\* The number branch of ReadValue.
ReadValueNumber(h, s) ==
  LET int == ReadIntValue(s)
      isFloat == Len(int.s) > 0
                 /\ At(int.s, 0) \in {Ch_dot, Ch_lowerE, Ch_upperE}
      float == ReadFloatAfterInteger(int.s)
  IN IF int.err # nil THEN Val(int.value, ValueTypeInt, int.s, int.err, h)
     ELSE IF isFloat
       THEN IF float.err # nil
              THEN Val(int.value, ValueTypeFloat, float.s, float.err, h)
              ELSE Val(Consumed(s, float.s), ValueTypeFloat, float.s, nil,
                       Write(Write(h, HPrefValueFloat), int.value))
     ELSE Val(int.value, ValueTypeInt, int.s, nil,
              Write(Write(h, HPrefValueInteger), int.value))

\* The string branch writing the bytes between the quotes as they stand.
ReadValueStringRaw(h, s) ==
  LET block == HasPrefix(s, StrQuotes)
      r == IF block THEN ReadStringBlockAfterQuotes(From(s, 3))
           ELSE ReadStringLineAfterQuotes(From(s, 1))
      value == IF block THEN Slice(s, 3, Len(s) - Len(r.s) - 3)
               ELSE Slice(s, 1, Len(s) - Len(r.s) - 1)
  IN IF r.err # nil THEN Val(<<>>, ValueTypeString, r.s, r.err, h)
     ELSE Val(value, IF block THEN ValueTypeStringBlock ELSE ValueTypeString,
              r.s, nil, Write(Write(h, HPrefValueString), value))

\* The string branch of ReadValue.
ReadValueString(h, s) ==
  IF HasPrefix(s, StrQuotes)
    THEN LET b == ReadStringBlockAfterQuotes(From(s, 3))
             value == IF b.valueNil THEN <<>>
                      ELSE TrimEmptyLinesSuffix(
                             Slice(s, 3, Len(s) - Len(b.s) - 3))
         IN IF b.err # nil THEN Val(<<>>, ValueTypeStringBlock, b.s, b.err, h)
            ELSE Val(value, ValueTypeStringBlock, b.s, nil,
                     WriteAll(Write(h, HPrefValueString),
                              IterateBlockStringLines(value, b.prefixLen)))
    ELSE LET l == ReadStringLineAfterQuotes(From(s, 1))
             value == Slice(s, 1, Len(s) - Len(l.s) - 1)
         IN IF l.err # nil THEN Val(<<>>, ValueTypeString, l.s, l.err, h)
            ELSE Val(value, ValueTypeString, l.s, nil,
                     Write(Write(h, HPrefValueString), value))

\* The loop of the list branch: s is the whole value, suffix what is left.
ListPass(h, s, suffix) ==
  IF Len(suffix) = 0 THEN Val(<<>>, ValueTypeList, suffix, ErrUnexpectedEOF, h)
  ELSE
    LET Item(v) ==
          LET rest == SkipIgnorables(v.s)
          IN IF v.err # nil THEN Val(<<>>, ValueTypeList, v.s, v.err, v.h)
             ELSE IF ExpectNoEOF(rest) # nil
               THEN Val(<<>>, ValueTypeList, rest, ErrUnexpectedEOF, v.h)
             ELSE IF At(rest, 0) = Ch_rbracket
               THEN Val(Consumed(s, From(rest, 1)), ValueTypeList,
                        From(rest, 1), nil, Write(v.h, HPrefValueListEnd))
             ELSE Val(<<>>, ValueTypeList, rest, Continue, v.h)
    IN Item(ReadValue(h, suffix))

ListLoop(h, s, suffix) ==
  LET Step(p) == IF p.err = Continue THEN ListLoop(p.h, s, p.s) ELSE p
  IN Step(ListPass(h, s, suffix))

\* The loop of the input object branch.
InputObjectPass(h, s, suffix) ==
  IF Len(suffix) = 0
    THEN Val(<<>>, ValueTypeInputObject, suffix, ErrUnexpectedEOF, h)
  ELSE
    LET n == ReadName(suffix)
        hName == Write(Write(h, HPrefValueInputObjectField), n.name)
        column == SkipIgnorables(n.s)
        FieldValue(v) ==
          LET rest == SkipIgnorables(v.s)
          IN IF v.err # nil
               THEN Val(<<>>, ValueTypeInputObject, v.s, v.err, v.h)
             ELSE IF ExpectNoEOF(rest) # nil
               THEN Val(<<>>, ValueTypeInputObject, rest, ErrUnexpectedEOF, v.h)
             ELSE IF At(rest, 0) = Ch_rbrace
               THEN Val(Consumed(s, From(rest, 1)), ValueTypeInputObject,
                        From(rest, 1), nil, Write(v.h, HPrefInputObjectEnd))
             ELSE Val(<<>>, ValueTypeInputObject, rest, Continue, v.h)
    IN IF n.err # nil THEN Val(<<>>, ValueTypeInputObject, n.s, n.err, h)
       ELSE IF ExpectNoEOF(column) # nil
         THEN Val(<<>>, ValueTypeInputObject, column, ErrUnexpectedEOF, hName)
       ELSE IF At(column, 0) # Ch_colon
         THEN Val(<<>>, ValueTypeInputObject, column, ErrUnexpectedToken, hName)
       ELSE FieldValue(ReadValue(hName, SkipIgnorables(From(column, 1))))

InputObjectLoop(h, s, suffix) ==
  LET Step(p) == IF p.err = Continue THEN InputObjectLoop(p.h, s, p.s) ELSE p
  IN Step(InputObjectPass(h, s, suffix))

ReadValue(h, s) ==
  IF ExpectNoEOF(s) # nil THEN Val(<<>>, ValueTypeZero, s, ErrUnexpectedEOF, h)
  ELSE IF HasPrefix(s, StrNull)
    THEN Val(StrNull, ValueTypeNull, From(s, 4), nil, Write(h, HPrefValueNull))
  ELSE IF HasPrefix(s, StrTrue)
    THEN Val(StrTrue, ValueTypeBooleanTrue, From(s, 4), nil,
             Write(h, HPrefValueTrue))
  ELSE IF HasPrefix(s, StrFalse)
    THEN Val(StrFalse, ValueTypeBooleanFalse, From(s, 5), nil,
             Write(h, HPrefValueFalse))
  ELSE IF At(s, 0) = Ch_dollar
    THEN LET skipped == SkipIgnorables(From(s, 1))
             n == ReadName(skipped)
         IN IF n.err # nil THEN Val(skipped, ValueTypeVariable, n.s, n.err, h)
            ELSE Val(n.name, ValueTypeVariable, n.s, nil,
                     Write(Write(h, HPrefValueVariable), n.name))
  ELSE IF At(s, 0) = Ch_minus \/ IsDigit(At(s, 0)) THEN ReadValueNumber(h, s)
  ELSE IF At(s, 0) = Ch_quote THEN ReadValueString(h, s)
  ELSE IF At(s, 0) = Ch_lbracket
    THEN LET suffix == SkipIgnorables(From(s, 1))
             hList == Write(h, HPrefValueList)
         IN IF Len(suffix) > 0 /\ At(suffix, 0) = Ch_rbracket
              THEN Val(Consumed(s, From(suffix, 1)), ValueTypeList,
                       From(suffix, 1), nil, hList)
              ELSE ListLoop(hList, s, suffix)
  ELSE IF At(s, 0) = Ch_lbrace
    THEN LET suffix == SkipIgnorables(From(s, 1))
             hObj == Write(h, HPrefValueInputObject)
         IN IF Len(suffix) > 0 /\ At(suffix, 0) = Ch_rbrace
              THEN Val(Consumed(s, From(suffix, 1)), ValueTypeInputObject,
                       From(suffix, 1), nil, hObj)
              ELSE InputObjectLoop(hObj, s, suffix)
  ELSE LET n == ReadName(s)
       IN Val(n.name, IF n.err # nil THEN ValueTypeZero ELSE ValueTypeEnum,
              n.s, n.err, Write(Write(h, HPrefValueEnum), n.name))

(***************************************************************************)
(* Arguments, directives, variable definitions.                            *)
(* The slices ReadArguments and ReadDirectives return besides the suffix   *)
(* (arguments, directives) are dropped by every caller and left out.       *)
(***************************************************************************)
ArgumentsPass(h, suffix) ==
  LET n == ReadName(suffix)
      hName == Write(Write(h, HPrefArgument), n.name)
      t == ReadToken(SkipIgnorables(n.s), <<Ch_colon>>)
      Argument(v) ==
        LET rest == SkipIgnorables(v.s)
        IN IF v.err # nil THEN Res(v.s, v.err, v.h)
           ELSE IF ExpectNoEOF(rest) # nil THEN Res(rest, ErrUnexpectedEOF, v.h)
           ELSE IF At(rest, 0) = Ch_rparen THEN Res(From(rest, 1), nil, v.h)
           ELSE Res(rest, Continue, v.h)
  IN IF n.err # nil THEN Res(n.s, n.err, h)
     ELSE IF t.err # nil THEN Res(t.s, t.err, hName)
     ELSE Argument(Call("ReadValue", hName, SkipIgnorables(t.s)))

RECURSIVE ArgumentsLoop(_, _)
ArgumentsLoop(h, suffix) ==
  LET Step(p) == IF p.err = Continue THEN ArgumentsLoop(p.h, p.s) ELSE p
  IN Step(ArgumentsPass(h, suffix))

ReadArguments(h, s) ==
  LET t == ReadToken(s, <<Ch_lparen>>)
  IN IF t.err # nil THEN Res(t.s, t.err, h)
     ELSE ArgumentsLoop(h, SkipIgnorables(From(s, 1)))

DirectivesPass(h, suffix) ==
  IF Len(suffix) = 0 \/ At(suffix, 0) # Ch_at THEN Res(suffix, nil, h)
  ELSE
    LET n == ReadName(SkipIgnorables(From(suffix, 1)))
        hName == Write(Write(h, HPrefDirective), n.name)
        afterName == SkipIgnorables(n.s)
        WithArguments(a) ==
          IF a.err # nil THEN a ELSE Res(SkipIgnorables(a.s), Continue, a.h)
    IN IF n.err # nil THEN Res(n.s, n.err, h)
       ELSE IF ExpectNoEOF(afterName) # nil
         THEN Res(afterName, ErrUnexpectedEOF, hName)
       ELSE IF At(afterName, 0) = Ch_lparen
         THEN WithArguments(Call("ReadArguments", hName, afterName))
       ELSE Res(SkipIgnorables(afterName), Continue, hName)

RECURSIVE DirectivesLoop(_, _)
DirectivesLoop(h, suffix) ==
  LET Step(p) == IF p.err = Continue THEN DirectivesLoop(p.h, p.s) ELSE p
  IN Step(DirectivesPass(h, suffix))

ReadDirectives(h, s) == DirectivesLoop(h, s)

\* One pass of the loop of ReadVariableDefinitionsAfterParenthesis.
VariableDefinitionsPass(h, s) ==
  IF Len(s) = 0 THEN Res(s, Panic, h)
  ELSE IF At(s, 0) # Ch_dollar THEN Res(s, ErrUnexpectedToken, h)
  ELSE
    LET n == ReadName(SkipIgnorables(From(s, 1)))
        hName == Write(Write(h, HPrefVariableDefinition), n.name)
        t == ReadToken(SkipIgnorables(n.s), <<Ch_colon>>)
        WithDirectives(d) ==
          LET rest == SkipIgnorables(d.s)
          IN IF d.err # nil THEN d
             ELSE IF ExpectNoEOF(rest) # nil
               THEN Res(rest, ErrUnexpectedEOF, d.h)
             ELSE IF At(rest, 0) = Ch_rparen THEN Res(From(rest, 1), nil, d.h)
             ELSE Res(rest, Continue, d.h)
        WithDefault(v) ==
          IF v.err # nil THEN Res(v.s, v.err, v.h)
          ELSE WithDirectives(Call("ReadDirectives", v.h, SkipIgnorables(v.s)))
        WithType(ty) ==
          LET afterType == SkipIgnorables(ty.s)
              hType == Write(Write(hName, HPrefType), ty.typeDef)
          IN IF ty.err # nil THEN Res(ty.s, ty.err, hName)
             ELSE IF ExpectNoEOF(afterType) # nil
               THEN Res(afterType, ErrUnexpectedEOF, hType)
             ELSE IF At(afterType, 0) = Ch_equals
               THEN WithDefault(Call("ReadValue", hType,
                                 SkipIgnorables(From(afterType, 1))))
             ELSE WithDirectives(Call("ReadDirectives", hType, afterType))
    IN IF n.err # nil THEN Res(n.s, nil, h)
       ELSE IF t.err # nil THEN Res(t.s, t.err, hName)
       ELSE WithType(ReadType(SkipIgnorables(t.s)))

RECURSIVE VariableDefinitionsLoop(_, _)
VariableDefinitionsLoop(h, s) ==
  LET Step(p) ==
        IF p.err = Continue THEN VariableDefinitionsLoop(p.h, p.s) ELSE p
  IN Step(VariableDefinitionsPass(h, s))

ReadVariableDefinitionsAfterParenthesis(h, s) == VariableDefinitionsLoop(h, s)

(***************************************************************************)
(* Selection sets.                                                         *)
(***************************************************************************)
RECURSIVE ReadSelectionSet(_, _)

\* The selection after "..." and the ignorables that follow it.
ReadSpread(h, s) ==
  LET WithSelectionSet(ss) ==
        IF ss.err # nil THEN ss ELSE Res(SkipIgnorables(ss.s), nil, ss.h)
      WithDirectives(d) ==
        IF d.err # nil THEN d
        ELSE WithSelectionSet(ReadSelectionSet(d.h, SkipIgnorables(d.s)))
      SpreadDirectives(d) ==
        IF d.err # nil THEN d ELSE Res(SkipIgnorables(d.s), nil, d.h)
  IN
  IF Len(s) > Len(StrOnSpace) /\ HasPrefix(s, StrOn) /\ IsIgnorableByte(At(s, 2))
    THEN \* Inline fragment with a type condition.
      LET n == ReadName(SkipIgnorables(From(s, 3)))
          hType == Write(Write(Write(h, HPrefInlineFragment), HPrefType), n.name)
      IN IF n.err # nil THEN Res(n.s, n.err, h)
         ELSE WithDirectives(
                Call("ReadDirectives", hType, SkipIgnorables(n.s)))
  ELSE IF Len(s) > 0 /\ IsNameStart(At(s, 0))
    THEN \* Fragment spread.
      LET n == ReadName(s)
          hName == Write(Write(h, HPrefFragmentSpread), n.name)
      IN IF n.err # nil THEN Res(n.s, n.err, h)
         ELSE SpreadDirectives(
                Call("ReadDirectives", hName, SkipIgnorables(n.s)))
  ELSE \* Inline fragment without type condition.
      WithDirectives(Call("ReadDirectives", Write(h, HPrefInlineFragment), s))

\* The field branch of the loop of ReadSelectionSet.
ReadField(h, s) ==
  LET n == ReadName(s)
      hName == Write(Write(h, HPrefField), n.name)
      afterName == SkipIgnorables(n.s)
      isAlias == At(afterName, 0) = Ch_colon
      al == ReadName(SkipIgnorables(From(afterName, 1)))
      hField == IF isAlias
                  THEN Write(Write(hName, HPrefFieldAliasedName), al.name)
                  ELSE hName
      afterField == IF isAlias THEN SkipIgnorables(al.s) ELSE afterName
      WithSelectionSet(ss) ==
        IF ss.err # nil THEN ss ELSE Res(SkipIgnorables(ss.s), nil, ss.h)
      WithDirectives(d) ==
        LET afterDirs == SkipIgnorables(d.s)
        IN IF d.err # nil THEN d
           ELSE IF ExpectNoEOF(afterDirs) # nil
             THEN Res(afterDirs, ErrUnexpectedEOF, d.h)
           ELSE IF At(afterDirs, 0) = Ch_lbrace
             THEN WithSelectionSet(ReadSelectionSet(d.h, afterDirs))
           ELSE Res(SkipIgnorables(afterDirs), nil, d.h)
      WithArguments(a) ==
        IF a.err # nil THEN a
        ELSE WithDirectives(Call("ReadDirectives", a.h, SkipIgnorables(a.s)))
  IN IF n.err # nil THEN Res(n.s, n.err, h)
     ELSE IF ExpectNoEOF(afterName) # nil
       THEN Res(afterName, ErrUnexpectedEOF, hName)
     ELSE IF isAlias /\ al.err # nil THEN Res(al.s, al.err, hName)
     ELSE IF ExpectNoEOF(afterField) # nil
       THEN Res(afterField, ErrUnexpectedEOF, hField)
     ELSE IF At(afterField, 0) = Ch_lparen
       THEN WithArguments(Call("ReadArguments", hField, afterField))
     ELSE WithDirectives(Call("ReadDirectives", hField, afterField))

\* The loop of ReadSelectionSet.
RECURSIVE SelectionSetLoop(_, _)
SelectionSetPass(h, s) ==
  LET Selection(r) ==
        IF r.err # nil THEN r
        ELSE IF ExpectNoEOF(r.s) # nil THEN Res(r.s, ErrUnexpectedEOF, r.h)
        ELSE IF At(r.s, 0) = Ch_rbrace
          THEN Res(From(r.s, 1), nil, Write(r.h, HPrefSelectionSetEnd))
        ELSE Res(r.s, Continue, r.h)
  IN Selection(IF HasPrefix(s, StrDots)
                 THEN ReadSpread(h, SkipIgnorables(From(s, 3)))
                 ELSE ReadField(h, s))

SelectionSetLoop(h, s) ==
  LET Step(p) == IF p.err = Continue THEN SelectionSetLoop(p.h, p.s) ELSE p
  IN Step(SelectionSetPass(h, s))

ReadSelectionSet(h, s) ==
  LET t == ReadToken(s, <<Ch_lbrace>>)
  IN IF t.err # nil THEN Res(t.s, t.err, h)
     ELSE SelectionSetLoop(Write(h, HPrefSelectionSet), SkipIgnorables(t.s))

(***************************************************************************)
(* Definitions and documents.                                              *)
(***************************************************************************)
\* ReadOperationType with the marker of another operation type for query.
ReadOperationTypeAsMutation(h, s) ==
  IF HasPrefix(s, StrQuery) THEN Res(From(s, 5), nil, Write(h, HPrefMutation))
  ELSE Res(s, ErrUnexpectedToken, h)

\* ReadOperationType indexes s[0] and slices s[len("query"):] unchecked.
ReadOperationType(h, s) ==
  IF HasPrefix(s, StrQuery) THEN Res(From(s, 5), nil, Write(h, HPrefQuery))
  ELSE IF Len(s) = 0 THEN Res(s, Panic, h)
  ELSE IF At(s, 0) = Ch_lbrace
    THEN IF Len(s) < Len(StrQuery) THEN Res(s, Panic, Write(h, HPrefQuery))
         ELSE Res(From(s, 5), nil, Write(h, HPrefQuery))
  ELSE IF HasPrefix(s, StrMutation)
    THEN Res(From(s, 8), nil, Write(h, HPrefMutation))
  ELSE IF HasPrefix(s, StrSubscription)
    THEN Res(From(s, 12), nil, Write(h, HPrefSubscription))
  ELSE Res(s, ErrUnexpectedToken, h)

ReadOperationDefinition(h, s) ==
  LET ot == ReadOperationType(h, s)
      afterType == SkipIgnorables(ot.s)
      hasName == IsNameStart(At(afterType, 0))
      n == ReadName(afterType)
      hName == IF hasName THEN Write(ot.h, n.name) ELSE ot.h
      afterName == IF hasName THEN SkipIgnorables(n.s) ELSE afterType
      inParen == SkipIgnorables(From(afterName, 1))
      WithDirectives(d) ==
        IF d.err # nil THEN d ELSE Call("ReadSelectionSet", d.h, SkipIgnorables(d.s))
      WithVariables(vd) ==
        IF vd.err # nil THEN vd
        ELSE WithDirectives(Call("ReadDirectives", vd.h, SkipIgnorables(vd.s)))
  IN IF ot.err # nil THEN ot
     ELSE IF ExpectNoEOF(afterType) # nil
       THEN Res(afterType, ErrUnexpectedEOF, ot.h)
     ELSE IF hasName /\ n.err # nil THEN Res(n.s, n.err, ot.h)
     ELSE IF hasName /\ ExpectNoEOF(afterName) # nil
       THEN Res(afterName, ErrUnexpectedEOF, hName)
     ELSE IF At(afterName, 0) = Ch_lparen
       THEN IF ExpectNoEOF(inParen) # nil
              THEN Res(inParen, ErrUnexpectedEOF, hName)
              ELSE WithVariables(
                     ReadVariableDefinitionsAfterParenthesis(hName, inParen))
     ELSE WithDirectives(Call("ReadDirectives", hName, afterName))

\* A ReadDefinition that takes any name for the name of a fragment.
ReadDefinitionAnyName(h, s) ==
  IF ExpectNoEOF(s) # nil THEN Res(s, ErrUnexpectedEOF, h)
  ELSE IF At(s, 0) = Ch_lbrace
    THEN Call("ReadSelectionSet", Write(h, HPrefQuery), s)
  ELSE IF HasPrefix(s, StrFragment)
    THEN
      LET n == ReadName(SkipIgnorables(From(s, 8)))
          t == ReadToken(SkipIgnorables(n.s), StrOn)
          ty == ReadName(SkipIgnorables(t.s))
          hFrag == Write(Write(Write(Write(h, HPrefFragmentDefinition), n.name),
                               HPrefType), ty.name)
          WithDirectives(d) ==
            IF d.err # nil THEN d
            ELSE Call("ReadSelectionSet", d.h, SkipIgnorables(d.s))
      IN IF n.err # nil THEN Res(n.s, n.err, h)
         ELSE IF t.err # nil THEN Res(t.s, t.err, h)
         ELSE IF ty.err # nil THEN Res(ty.s, ty.err, h)
         ELSE WithDirectives(
                Call("ReadDirectives", hFrag, SkipIgnorables(ty.s)))
  ELSE ReadOperationDefinition(h, s)

\* A ReadDefinition that leaves every definition to ReadOperationDefinition.
ReadDefinitionAsOperation(h, s) == ReadOperationDefinition(h, s)

ReadDefinition(h, s) ==
  IF ExpectNoEOF(s) # nil THEN Res(s, ErrUnexpectedEOF, h)
  ELSE IF At(s, 0) = Ch_lbrace
    THEN Call("ReadSelectionSet", Write(h, HPrefQuery), s)
  ELSE IF HasPrefix(s, StrFragment)
    THEN
      LET afterKw == SkipIgnorables(From(s, 8))
          n == ReadName(afterKw)
          t == ReadToken(SkipIgnorables(n.s), StrOn)
          ty == ReadName(SkipIgnorables(t.s))
          hFrag == Write(Write(Write(Write(h, HPrefFragmentDefinition), n.name),
                               HPrefType), ty.name)
          WithDirectives(d) ==
            IF d.err # nil THEN d
            ELSE Call("ReadSelectionSet", d.h, SkipIgnorables(d.s))
      IN IF n.err # nil THEN Res(n.s, n.err, h)
         ELSE IF n.name = StrOn THEN Res(afterKw, ErrUnexpectedToken, h)
         ELSE IF t.err # nil THEN Res(t.s, t.err, h)
         ELSE IF ty.err # nil THEN Res(ty.s, ty.err, h)
         ELSE WithDirectives(
                Call("ReadDirectives", hFrag, SkipIgnorables(ty.s)))
  ELSE ReadOperationDefinition(h, s)

\* A pass of the loop of ReadDocument that keeps s as it was.
DocumentPassInPlace(h, s) ==
  IF Len(s) < 1 THEN Res(s, nil, h)
  ELSE LET Definition(r) == IF r.err # nil THEN r ELSE Res(s, Continue, r.h)
       IN Definition(ReadDefinition(h, s))

\* One pass of the loop of ReadDocument.
DocumentPass(h, s) ==
  IF Len(s) < 1 THEN Res(s, nil, h)
  ELSE LET Definition(r) ==
             IF r.err # nil THEN r ELSE Res(SkipIgnorables(r.s), Continue, r.h)
       IN Definition(ReadDefinition(h, s))

\* The loop of ReadDocument.
RECURSIVE DocumentLoop(_, _)
DocumentLoop(h, s) ==
  LET Step(p) == IF p.err = Continue THEN DocumentLoop(p.h, p.s) ELSE p
  IN Step(DocumentPass(h, s))

\* ReadDocument returns the error alone; the digest is kept to tell what
\* the call wrote, the suffix to tell where it stopped.
ReadDocument(h, s) ==
  LET skipped == SkipIgnorables(s)
  IN IF ExpectNoEOF(skipped) # nil THEN Res(skipped, ErrUnexpectedEOF, h)
     ELSE DocumentLoop(h, skipped)

Call(fn, h, s) ==
  CASE fn = "ReadValue" -> ReadValue(h, s)
    [] fn = "ReadArguments" -> ReadArguments(h, s)
    [] fn = "ReadDirectives" -> ReadDirectives(h, s)
    [] fn = "ReadSelectionSet" -> ReadSelectionSet(h, s)
    [] fn = "ReadDocument" -> ReadDocument(h, s)
    [] fn = "ReadDefinition" -> ReadDefinition(h, s)
    [] fn = "DocumentPass" -> DocumentPass(h, s)
    [] fn = "SelectionSetPass" -> SelectionSetPass(h, s)
    [] fn = "ArgumentsPass" -> ArgumentsPass(h, s)
    [] fn = "DirectivesPass" -> DirectivesPass(h, s)
    [] fn = "VariableDefinitionsPass" -> VariableDefinitionsPass(h, s)
    [] fn = "ListPass" -> ListPass(h, s, s)
    [] fn = "InputObjectPass" -> InputObjectPass(h, s, s)

(***************************************************************************)
(* Package gqlhash.                                                        *)
(***************************************************************************)
\* The bytes of all the chunks of h, in the order written.
RECURSIVE Concat(_)
Concat(h) == IF h = <<>> THEN <<>> ELSE Head(h) \o Concat(Tail(h))

\* h.Reset() and h.Sum(buffer).  The digest algorithm is the caller's; the
\* model takes a digest without collisions, which depends on the bytes
\* written and not on how they were cut into chunks: the digest of h is one
\* element of the buffer, and h.Size() is 1.
\* A digest that still holds a byte written before.
Stale == <<HPrefQuery>>
Reset == <<>>
Size == 1
\* A Sum that returns the digest alone, the buffer dropped.
SumAlone(h, buffer) == <<Concat(h)>>
Sum(h, buffer) == Append(buffer, Concat(h))

\* The calls that bring a digest from h0 to h: one Write for each chunk
\* that h holds and h0 does not.
Writes(h0, h) == [i \in 1 .. Len(h) - Len(h0) |-> "Write"]

\* AppendQueryHash(buffer, h, s): the buffer and the error returned, the
\* digest as the call leaves it, and the calls the digest received, in
\* order.  A nil buffer is the empty sequence.
AppendQueryHash(buffer, s) ==
  LET skipped == SkipIgnorables(s)
      Summed(r) ==
        IF r.err # nil
          THEN [buffer |-> <<>>, err |-> r.err, h |-> r.h,
                calls |-> <<"Reset">> \o Writes(Reset, r.h)]
          ELSE [buffer |-> Sum(r.h, buffer), err |-> nil, h |-> r.h,
                calls |-> <<"Reset">> \o Writes(Reset, r.h) \o <<"Sum">>]
  IN IF ExpectNoEOF(skipped) # nil
       THEN [buffer |-> <<>>, err |-> ErrUnexpectedEOF, h |-> Reset,
             calls |-> <<"Reset">>]
       ELSE Summed(Call("ReadDocument", Reset, skipped))

VARIABLES
  given,    \* how the two inputs were drawn (a record with a field kind)
  a, b,     \* the inputs of Compare
  pc,       \* where CompareWithBuffer stands: "a", "b", "equal", "done"
  h,        \* the digest: the chunks written since its last Reset
  buffer,   \* the buffer of CompareWithBuffer: the digests appended
  err,      \* the error Compare returns, once pc = "done"
  calls,    \* the Reset, Write and Sum calls the digest received, in order
  out       \* of the command: what it wrote to stdout and stderr, its exit code

vars == <<given, a, b, pc, h, buffer, err, calls, out>>

\* Nothing written to either stream and no exit code: no command has run.
Silent == [stdout |-> <<>>, stderr |-> <<>>, code |-> nil, read |-> FALSE]

\* Compare(h, a, b) is CompareWithBuffer(nil, h, a, b): the new buffer is empty.
Start(g, x, y) ==
  /\ given = g
  /\ a = x
  /\ b = y
  /\ pc = "a"
  /\ h = <<>>
  /\ buffer = <<>>
  /\ err = nil
  /\ calls = <<>>
  /\ out = Silent

\* buffer, err = AppendQueryHash(buffer, h, a); if err != nil { return err }
HashA ==
  /\ pc = "a"
  /\ \E r \in {AppendQueryHash(buffer, a)} :
        /\ h' = r.h
        /\ buffer' = r.buffer
        /\ err' = r.err
        /\ calls' = calls \o r.calls
        /\ pc' = IF r.err # nil THEN "done" ELSE "b"
  /\ UNCHANGED <<given, a, b, out>>

\* buffer, err = AppendQueryHash(buffer, h, b); if err != nil { return err }
HashB ==
  /\ pc = "b"
  /\ \E r \in {AppendQueryHash(buffer, b)} :
        /\ h' = r.h
        /\ buffer' = r.buffer
        /\ err' = r.err
        /\ calls' = calls \o r.calls
        /\ pc' = IF r.err # nil THEN "done" ELSE "equal"
  /\ UNCHANGED <<given, a, b, out>>

\* if !bytes.Equal(buffer[:size], buffer[size:]) { return ErrQueriesDiffer }
Equal ==
  /\ pc = "equal"
  /\ err' = IF Slice(buffer, 0, Size) # From(buffer, Size)
              THEN ErrQueriesDiffer ELSE nil
  /\ pc' = "done"
  /\ UNCHANGED <<given, a, b, h, buffer, calls, out>>

Next == HashA \/ HashB \/ Equal

(***************************************************************************)
(* Inputs.  A document is drawn as a sequence of tokens, each the bytes of *)
(* one lexical token, and rendered with ignorable bytes in the gaps.       *)
(***************************************************************************)
Tk ==
  [ lbrace |-> <<123>>, rbrace |-> <<125>>, lparen |-> <<40>>,
    rparen |-> <<41>>, lbracket |-> <<91>>, rbracket |-> <<93>>,
    colon |-> <<58>>, equals |-> <<61>>, bang |-> <<33>>, dollar |-> <<36>>,
    at |-> <<64>>, dots |-> StrDots,
    query |-> StrQuery, mutation |-> StrMutation,
    subscription |-> StrSubscription, fragment |-> StrFragment, on |-> StrOn,
    null |-> StrNull, true |-> StrTrue, false |-> StrFalse,
    a |-> <<97>>, b |-> <<98>>, d |-> <<100>>, f |-> <<102>>, g |-> <<103>>,
    k |-> <<107>>, v |-> <<118>>, x |-> <<120>>, E |-> <<69>>, F |-> <<70>>,
    Q |-> <<81>>, T |-> <<84>>,
    zero |-> <<48>>, one |-> <<49>>, minusTwo |-> <<45, 50>>,
    twelve |-> <<49, 50>>,
    float10 |-> <<49, 46, 48>>,          \* 1.0
    float100 |-> <<49, 46, 48, 48>>,     \* 1.00
    float15 |-> <<49, 46, 53>>,          \* 1.5
    float1e5 |-> <<49, 101, 53>>,        \* 1e5
    float15Em2 |-> <<49, 46, 53, 69, 45, 50>>,  \* 1.5E-2
    strEmpty |-> <<34, 34>>,             \* ""
    strAbc |-> <<34, 97, 98, 99, 34>>,   \* "abc"
    strEsc |-> <<34, 97, 92, 110, 92, 117, 48, 48, 52, 49, 34>>, \* "a\nA"
    blockAbc |-> <<34, 34, 34, 97, 98, 99, 34, 34, 34>>,  \* """abc"""
    blockLines |-> <<34, 34, 34, 10, 32, 97, 10, 32, 32, 98, 10, 34, 34, 34>> ]

\* A letter, a digit or an underscore: two tokens that meet in such bytes
\* read as one token unless an ignorable byte separates them.
IsWordByte(c) == IsLetter(c) \/ IsDigit(c) \/ c = Ch_underscore
NeedsSeparator(t1, t2) == IsWordByte(t1[Len(t1)]) /\ IsWordByte(t2[1])

\* The tokens toks, with seps[i] before token i and seps[Len(toks) + 1]
\* after the last token.
RECURSIVE RenderFrom(_, _, _)
RenderFrom(toks, seps, i) ==
  IF i > Len(toks) THEN seps[i]
  ELSE seps[i] \o toks[i] \o RenderFrom(toks, seps, i + 1)
Render(toks, seps) == RenderFrom(toks, seps, 1)

\* No ignorable bytes but a space where two tokens would read as one.
Tight(toks) ==
  [i \in 1 .. Len(toks) + 1 |->
     IF i > 1 /\ i <= Len(toks) /\ NeedsSeparator(toks[i - 1], toks[i])
       THEN <<Ch_space>> ELSE <<>>]

\* The bytes of toks with the fewest ignorable bytes.
Doc(toks) == Render(toks, Tight(toks))

\* The sequences over S of a length in lo .. hi.
SeqsOf(S, lo, hi) == UNION {[1 .. n -> S] : n \in lo .. hi}

\* The concatenation of a sequence of token sequences.
RECURSIVE Join(_)
Join(parts) == IF parts = <<>> THEN <<>> ELSE Head(parts) \o Join(Tail(parts))

\* Whether AppendQueryHash accepts s.
Accepts(s) == AppendQueryHash(<<>>, s).err = nil

(***************************************************************************)
(* A document against the same tokens with other ignorable bytes.          *)
(***************************************************************************)
FormatDocs ==
  << <<Tk.lbrace, Tk.f, Tk.rbrace>>,
     <<Tk.query, Tk.Q, Tk.lbrace, Tk.f, Tk.lparen, Tk.a, Tk.colon, Tk.one,
       Tk.b, Tk.colon, Tk.strAbc, Tk.rparen, Tk.rbrace>>,
     <<Tk.lbrace, Tk.a, Tk.colon, Tk.f, Tk.at, Tk.d, Tk.lbrace, Tk.g, Tk.f,
       Tk.rbrace, Tk.rbrace>>,
     <<Tk.lbrace, Tk.f, Tk.lparen, Tk.a, Tk.colon, Tk.lbracket, Tk.one,
       Tk.float15, Tk.lbrace, Tk.k, Tk.colon, Tk.dollar, Tk.v, Tk.rbrace,
       Tk.rbracket, Tk.rparen, Tk.rbrace>>,
     <<Tk.lbrace, Tk.dots, Tk.F, Tk.dots, Tk.at, Tk.d, Tk.lbrace, Tk.g,
       Tk.rbrace, Tk.rbrace>>,
     <<Tk.fragment, Tk.F, Tk.on, Tk.T, Tk.lbrace, Tk.f, Tk.rbrace>>,
     <<Tk.lbrace, Tk.dots, Tk.on, Tk.T, Tk.lbrace, Tk.g, Tk.rbrace,
       Tk.rbrace>>,
     <<Tk.query, Tk.lparen, Tk.dollar, Tk.v, Tk.colon, Tk.lbracket, Tk.T,
       Tk.rbracket, Tk.bang, Tk.equals, Tk.one, Tk.rparen, Tk.lbrace, Tk.f,
       Tk.rbrace>> >>

\* Ignorable content: white space, line terminators, a comma, a comment.
Fillers ==
  {<<Ch_space>>, <<Ch_tab>>, <<Ch_lf>>, <<Ch_cr>>, <<Ch_comma>>,
   <<Ch_hash, 99, Ch_lf>>}

\* Tight(toks) with the filler g in gap i, or in every gap when i = 0.
Filled(toks, i, g) ==
  [j \in 1 .. Len(toks) + 1 |-> IF i = 0 \/ i = j THEN g ELSE Tight(toks)[j]]

InitFormat ==
  \E d \in 1 .. Len(FormatDocs) :
    \E i \in 0 .. Len(FormatDocs[d]) + 1, g \in Fillers :
      Start([kind |-> "format", doc |-> d, gap |-> i, filler |-> g],
            Doc(FormatDocs[d]),
            Render(FormatDocs[d], Filled(FormatDocs[d], i, g)))

SpecFormat == InitFormat /\ [][Next]_vars

\* C1: when a is accepted, the rewriting b of its ignorable content is
\* accepted as well and the digests are equal: Compare returns nil.
FormattingInvariance ==
  (given.kind = "format" /\ pc = "done" /\ Accepts(a)) => err = nil

\* The same on the documents that hold neither a type nor a type condition.
FormattingInvarianceUntyped ==
  (given.kind = "format" /\ pc = "done" /\ given.doc <= 6) => err = nil

(***************************************************************************)
(* Two documents that differ in their tokens.                              *)
(***************************************************************************)
StructValues ==
  << <<Tk.one>>, <<Tk.twelve>>, <<Tk.float10>>, <<Tk.float100>>,
     <<Tk.float15>>, <<Tk.strEmpty>>, <<Tk.strAbc>>, <<Tk.true>>, <<Tk.null>>,
     <<Tk.E>>, <<Tk.dollar, Tk.v>>,
     <<Tk.lbrace, Tk.rbrace>>,
     <<Tk.lbrace, Tk.k, Tk.colon, Tk.one, Tk.rbrace>>,
     <<Tk.lbracket, Tk.rbracket>>,
     <<Tk.lbracket, Tk.lbracket, Tk.rbracket, Tk.rbracket>>,
     <<Tk.lbracket, Tk.one, Tk.rbracket>> >>

StructDocs ==
  {<<Tk.lbrace, Tk.f, Tk.lparen, Tk.a, Tk.colon>> \o StructValues[v]
     \o <<Tk.rparen, Tk.rbrace>> : v \in 1 .. Len(StructValues)}
  \cup
  { <<Tk.lbrace, Tk.a, Tk.b, Tk.rbrace>>,
    <<Tk.lbrace, Tk.b, Tk.a, Tk.rbrace>>,
    <<Tk.lbrace, Tk.a, Tk.lbrace, Tk.b, Tk.rbrace, Tk.rbrace>>,
    <<Tk.lbrace, Tk.a, Tk.rbrace, Tk.lbrace, Tk.b, Tk.rbrace>>,
    <<Tk.lbrace, Tk.f, Tk.lparen, Tk.a, Tk.colon, Tk.one, Tk.b, Tk.colon,
      Tk.one, Tk.rparen, Tk.rbrace>>,
    <<Tk.lbrace, Tk.f, Tk.lparen, Tk.b, Tk.colon, Tk.one, Tk.a, Tk.colon,
      Tk.one, Tk.rparen, Tk.rbrace>> }

InitStruct ==
  \E x \in StructDocs, y \in StructDocs :
    /\ x # y
    /\ Start([kind |-> "struct"], Doc(x), Doc(y))

SpecStruct == InitStruct /\ [][Next]_vars

\* C2: two accepted documents that differ in a field order, an argument
\* order, their structure or the bytes of a literal have different digests.
StructuralSensitivity ==
  (given.kind = "struct" /\ pc = "equal") => buffer[1] # buffer[2]

(***************************************************************************)
(* Two fields against one field of the joined name.                        *)
(***************************************************************************)
MaxNameLen == 2
NameStartBytes == {110, 111, 95}        \* n o _
NameBytes == NameStartBytes \cup {49}   \* and 1
Names ==
  {n \in SeqsOf(NameBytes, 1, MaxNameLen) : n[1] \in NameStartBytes}
Separators == {<<Ch_space>>, <<Ch_comma>>}

InitCollapse ==
  \E n1 \in Names, n2 \in Names, sep \in Separators :
    Start([kind |-> "collapse", n1 |-> n1, n2 |-> n2],
          Tk.lbrace \o n1 \o sep \o n2 \o Tk.rbrace,
          Tk.lbrace \o n1 \o n2 \o Tk.rbrace)

SpecCollapse == InitCollapse /\ [][Next]_vars

MaxFracLen == 2
FloatInts == {<<48>>, <<49>>, <<45, 49>>}               \* 0 1 -1
FloatFracs ==
  {<<>>} \cup {<<Ch_dot>> \o ds : ds \in SeqsOf({48, 53}, 1, MaxFracLen)}
FloatExps == {<<>>, <<Ch_lowerE, 49>>, <<Ch_upperE, Ch_minus, 50>>}
Floats ==
  {i \o f \o e : i \in FloatInts, f \in FloatFracs \ {<<>>}, e \in FloatExps}
  \cup {i \o e : i \in FloatInts, e \in FloatExps \ {<<>>}}

\* The document {f(a:V)} for the bytes V of a value.
ArgDoc(value) ==
  <<Ch_lbrace, 102, Ch_lparen, 97, Ch_colon>> \o value
    \o <<Ch_rparen, Ch_rbrace>>

\* What {f(a:V)} sends to the digest when V is encoded as the bytes enc.
ArgStream(enc) ==
  HPrefQuery \o HPrefSelectionSet \o HPrefField \o <<102>> \o HPrefArgument
    \o <<97>> \o enc \o HPrefSelectionSetEnd

InitFloat ==
  \E x \in Floats, y \in Floats :
    Start([kind |-> "float", x |-> x, y |-> y], ArgDoc(x), ArgDoc(y))

SpecFloat == InitFloat /\ [][Next]_vars

\* C4: a float literal is written as the Float marker and its whole raw
\* text, so that two different float literals give different digests.
FloatRawText ==
  given.kind = "float" =>
    /\ pc = "b" => Concat(h) = ArgStream(HPrefValueFloat \o given.x)
    /\ (pc = "equal" /\ given.x # given.y) => buffer[1] # buffer[2]

(***************************************************************************)
(* The same characters as a string and as a block string.                  *)
(***************************************************************************)
MaxStringLen == 3
StringBodies == SeqsOf({97, 98, Ch_space}, 1, MaxStringLen)

InitString ==
  \E body \in StringBodies :
    Start([kind |-> "string", body |-> body],
          ArgDoc(<<Ch_quote>> \o body \o <<Ch_quote>>),
          ArgDoc(StrQuotes \o body \o StrQuotes))

SpecString == InitString /\ [][Next]_vars

\* C5: a string and a block string of the same characters, both accepted,
\* never have the same digest.
StringKindsDiffer ==
  (given.kind = "string" /\ pc = "equal") => buffer[1] # buffer[2]

(***************************************************************************)
(* A selection set alone and after the keyword query.                      *)
(***************************************************************************)
MaxSelections == 2
SelectionPieces ==
  << <<Tk.f>>,
     <<Tk.a, Tk.colon, Tk.f>>,
     <<Tk.f, Tk.lparen, Tk.a, Tk.colon, Tk.one, Tk.rparen>>,
     <<Tk.f, Tk.at, Tk.d>>,
     <<Tk.f, Tk.lbrace, Tk.g, Tk.rbrace>>,
     <<Tk.dots, Tk.F>>,
     <<Tk.dots, Tk.on, Tk.T, Tk.lbrace, Tk.g, Tk.rbrace>>,
     <<Tk.dots, Tk.at, Tk.d, Tk.lbrace, Tk.g, Tk.rbrace>> >>

\* The selection set of the pieces sel, in that order.
SelectionSetOf(sel) ==
  Doc(<<Tk.lbrace>>
      \o Join([i \in 1 .. Len(sel) |-> SelectionPieces[sel[i]]])
      \o <<Tk.rbrace>>)

InitAnonymous ==
  \E sel \in SeqsOf(1 .. Len(SelectionPieces), 1, MaxSelections) :
    \E sep \in {<<>>, <<Ch_space>>, <<Ch_lf>>} :
      Start([kind |-> "anonymous", sel |-> sel, sep |-> sep],
            SelectionSetOf(sel),
            StrQuery \o sep \o SelectionSetOf(sel))

SpecAnonymous == InitAnonymous /\ [][Next]_vars

MaxBlock == 5
MaxIndent == 2
BlockBytes == {Ch_space, Ch_lf, 120, Ch_quote}          \* x is 120
BlockContents == SeqsOf(BlockBytes, 0, MaxBlock)
Pads == UNION {{[i \in 1 .. k |-> w] : w \in {Ch_space, Ch_tab}}
                 : k \in 1 .. MaxIndent}

\* s with pad at the start of every line after the first.
RECURSIVE Indent(_, _)
Indent(s, pad) ==
  IF s = <<>> THEN <<>>
  ELSE IF Head(s) = Ch_lf THEN <<Ch_lf>> \o pad \o Indent(Tail(s), pad)
  ELSE <<Head(s)>> \o Indent(Tail(s), pad)

InitIndent ==
  \E content \in BlockContents, pad \in Pads :
    Start([kind |-> "indent", content |-> content, pad |-> pad],
          ArgDoc(StrQuotes \o content \o StrQuotes),
          ArgDoc(StrQuotes \o Indent(content, pad) \o StrQuotes))

SpecIndent == InitIndent /\ [][Next]_vars

\* C7: when a document with a block string is accepted, the document with
\* the lines after the first indented by k more spaces or tabs is accepted
\* with the same digest.
BlockIndentInvariance ==
  (given.kind = "indent" /\ pc = "done" /\ Accepts(a)) => err = nil

(***************************************************************************)
(* A block string of white space and line breaks.                          *)
(***************************************************************************)
MaxBlank == 4
BlankContents == SeqsOf({Ch_space, Ch_tab, Ch_lf}, 0, MaxBlank)

InitBlankBlock ==
  \E w \in BlankContents :
    Start([kind |-> "blank", w |-> w],
          ArgDoc(StrQuotes \o w \o StrQuotes),
          ArgDoc(StrQuotes \o StrQuotes))

SpecBlankBlock == InitBlankBlock /\ [][Next]_vars

\* C8: ReadValue accepts a block string of spaces, tabs and line breaks
\* with an empty value and writes the String marker and nothing else, as it
\* does for the empty block string.
BlankBlockIsEmpty ==
  given.kind = "blank" =>
    /\ \E v \in {Call("ReadValue", <<>>, StrQuotes \o given.w \o StrQuotes)} :
         /\ v.err = nil
         /\ v.value = <<>>
         /\ v.valueType = ValueTypeStringBlock
         /\ v.s = <<>>
         /\ Concat(v.h) = HPrefValueString
    /\ pc = "b" => Concat(h) = ArgStream(HPrefValueString)
    /\ pc = "done" => err = nil

BlankBlockIsEmptyWitness ==
  /\ given.kind = "blank"
  /\ given.w = <<Ch_lf, Ch_space, Ch_tab, Ch_lf>>
  /\ pc = "done"
  /\ err = nil
  /\ buffer = <<ArgStream(HPrefValueString), ArgStream(HPrefValueString)>>

(***************************************************************************)
(* An input of ignorable bytes alone against a document.                   *)
(***************************************************************************)
MaxBlankPieces == 2
BlankPieces == Fillers \cup {<<Ch_hash, 99>>}
BlankInputs == {Join(ps) : ps \in SeqsOf(BlankPieces, 0, MaxBlankPieces)}
ValidInputs ==
  {Doc(FormatDocs[1]), <<Ch_lf>> \o Doc(FormatDocs[1]), Doc(FormatDocs[2]),
   <<Ch_hash, 99, Ch_lf>> \o Doc(FormatDocs[6])}

InitBlankInput ==
  \/ \E x \in BlankInputs, y \in ValidInputs :
       \/ Start([kind |-> "eof", blankA |-> TRUE, blankB |-> FALSE], x, y)
       \/ Start([kind |-> "eof", blankA |-> FALSE, blankB |-> TRUE], y, x)
  \/ \E x \in ValidInputs, y \in ValidInputs :
       Start([kind |-> "eof", blankA |-> FALSE, blankB |-> FALSE], x, y)

SpecBlankInput == InitBlankInput /\ [][Next]_vars

\* C9: AppendQueryHash returns ErrUnexpectedEOF, and no buffer, for an input
\* that is empty or ignorable throughout, and Compare returns
\* ErrUnexpectedEOF when a or b is such an input and the other a document.
EmptyInputIsEOF ==
  given.kind = "eof" =>
    /\ given.blankA => AppendQueryHash(<<>>, a).err = ErrUnexpectedEOF
    /\ given.blankB => AppendQueryHash(<<>>, b).err = ErrUnexpectedEOF
    /\ (given.blankA /\ pc # "a") => (pc = "done" /\ buffer = <<>>)
    /\ (pc = "done" /\ (given.blankA \/ given.blankB))
         => err = ErrUnexpectedEOF

EmptyInputIsEOFWitness ==
  /\ given.kind = "eof"
  /\ given.blankB
  /\ b = <<Ch_space, Ch_hash, 99>>
  /\ a = Doc(FormatDocs[2])
  /\ pc = "done"
  /\ err = ErrUnexpectedEOF

(***************************************************************************)
(* A document against a prefix of it.                                      *)
(***************************************************************************)
TruncDocs ==
  << <<Tk.lbrace, Tk.f, Tk.lparen, Tk.a, Tk.colon, Tk.float15Em2, Tk.b,
       Tk.colon, Tk.strEsc, Tk.rparen, Tk.rbrace>>,
     <<Tk.query, Tk.Q, Tk.lparen, Tk.dollar, Tk.v, Tk.colon, Tk.lbracket,
       Tk.T, Tk.rbracket, Tk.bang, Tk.equals, Tk.minusTwo, Tk.rparen, Tk.at,
       Tk.d, Tk.lbrace, Tk.f, Tk.rbrace>>,
     <<Tk.lbrace, Tk.a, Tk.colon, Tk.f, Tk.at, Tk.d, Tk.lparen, Tk.a,
       Tk.colon, Tk.lbracket, Tk.twelve, Tk.lbrace, Tk.k, Tk.colon, Tk.true,
       Tk.rbrace, Tk.rbracket, Tk.rparen, Tk.lbrace, Tk.dots, Tk.on, Tk.T,
       Tk.lbrace, Tk.g, Tk.rbrace, Tk.dots, Tk.F, Tk.rbrace, Tk.rbrace>>,
     <<Tk.fragment, Tk.F, Tk.on, Tk.T, Tk.lbrace, Tk.f, Tk.lparen, Tk.a,
       Tk.colon, Tk.blockLines, Tk.rparen, Tk.rbrace>>,
     <<Tk.subscription, Tk.lbrace, Tk.f, Tk.rbrace, Tk.lbrace, Tk.g,
       Tk.rbrace>> >>

\* A string, a block string or a number.
IsLiteral(tok) == tok[1] = Ch_quote \/ tok[1] = Ch_minus \/ IsDigit(tok[1])

\* The first n tokens of toks, and then the first c bytes of the next.
Truncated(toks, n, c) ==
  IF c = 0 THEN Doc(SubSeq(toks, 1, n))
  ELSE Doc(Append(SubSeq(toks, 1, n), SubSeq(toks[n + 1], 1, c)))

InitTruncate ==
  \E d \in 1 .. Len(TruncDocs) :
    \E n \in 0 .. Len(TruncDocs[d]) - 1 :
      \E c \in 0 .. Len(TruncDocs[d][n + 1]) - 1 :
        /\ n + c > 0
        /\ c > 0 => IsLiteral(TruncDocs[d][n + 1])
        /\ Start([kind |-> "truncate", doc |-> d, tokens |-> n, bytes |-> c],
                 Doc(TruncDocs[d]), Truncated(TruncDocs[d], n, c))

SpecTruncate == InitTruncate /\ [][Next]_vars

\* C10: a prefix of an accepted document that ends after a token or inside
\* a literal, and is not accepted itself, ends in ErrUnexpectedEOF.
TruncationIsEOF ==
  (given.kind = "truncate" /\ pc = "done" /\ ~Accepts(b))
    => err = ErrUnexpectedEOF

(***************************************************************************)
(* An operation whose variable definitions are opened and never closed.    *)
(***************************************************************************)
OpenHeads ==
  {<<Tk.query, Tk.lparen>>, <<Tk.query, Tk.Q, Tk.lparen>>,
   <<Tk.mutation, Tk.lparen>>}
OpenMiddles ==
  {<<>>, <<Tk.dollar>>, <<Tk.dollar, Tk.one>>, <<Tk.v>>,
   <<Tk.dollar, Tk.v>>, <<Tk.dollar, Tk.v, Tk.colon>>,
   <<Tk.dollar, Tk.v, Tk.colon, Tk.T>>,
   <<Tk.dollar, Tk.v, Tk.colon, Tk.T, Tk.equals, Tk.one>>,
   <<Tk.dollar, Tk.v, Tk.colon, Tk.T, Tk.dollar>>,
   <<Tk.dollar, Tk.v, Tk.colon, Tk.T, Tk.at, Tk.d>>}
OpenTails ==
  {<<>>, <<Tk.lbrace>>, <<Tk.lbrace, Tk.x, Tk.rbrace>>,
   <<Tk.at, Tk.d, Tk.lbrace, Tk.x, Tk.rbrace>>}

\* a is head, middle and tail, with the closing parenthesis between middle
\* and tail when closed; vd is what follows the opening parenthesis.
InitVarDefs ==
  \E hd \in OpenHeads, mid \in OpenMiddles, tl \in OpenTails :
    \E closed \in BOOLEAN :
      LET rest == IF closed THEN mid \o <<Tk.rparen>> \o tl ELSE mid \o tl
      IN Start([kind |-> "vardefs", open |-> ~closed, vd |-> Doc(rest)],
               Doc(hd \o rest), Doc(<<Tk.lbrace, Tk.x, Tk.rbrace>>))

SpecVarDefs == InitVarDefs /\ [][Next]_vars

\* C11: a document whose variable definitions are opened and not closed is
\* never hashed; ReadVariableDefinitionsAfterParenthesis fails when a dollar
\* sign is not followed by a name, and the error it returns is the error of
\* the document.
UnclosedVariablesFail ==
  (given.kind = "vardefs" /\ given.open) =>
    /\ pc # "a" => (pc = "done" /\ err # nil /\ buffer = <<>>)
    /\ given.vd # <<>> =>
         \E r \in {ReadVariableDefinitionsAfterParenthesis(<<>>, given.vd)} :
           /\ (/\ At(given.vd, 0) = Ch_dollar
               /\ ReadName(SkipIgnorables(From(given.vd, 1))).err # nil)
                => r.err # nil
           /\ (r.err # nil /\ pc = "done") => err = r.err

(***************************************************************************)
(* A document followed by bytes that are no definition.                    *)
(***************************************************************************)
TrailDocs ==
  {FormatDocs[1], FormatDocs[2], FormatDocs[6], FormatDocs[8]}

\* Bytes that do not begin a definition, or begin one and do not finish it.
TrailBytes ==
  {<<63>>, <<Ch_rbrace>>, <<Ch_rparen>>, <<Ch_rbracket>>, <<Ch_lparen>>,
   <<Ch_dollar>>, <<Ch_colon>>, <<Ch_at>>, <<Ch_bang>>, <<Ch_equals>>,
   <<Ch_dot>>, <<Ch_quote>>, <<Ch_zero>>, <<120>>, <<0>>, <<255>>,
   StrDots, StrQuery, StrFragment, <<Ch_lbrace>>, <<Ch_lbrace, 120>>,
   StrQuery \o <<Ch_lbrace>>, StrFragment \o <<Ch_space, 70>>}

\* An operation whose variable definitions are opened and never closed.
TrailOpenVariables ==
  {Doc(hd \o <<Tk.dollar>> \o tl) :
     hd \in OpenHeads, tl \in {<<>>, <<Tk.lbrace, Tk.x, Tk.rbrace>>}}

TrailGaps == {<<>>, <<Ch_space>>, <<Ch_lf>>, <<Ch_hash, 99, Ch_lf>>}

\* a is a document, a gap and the trailing bytes; b is the document alone.
InitTrailing ==
  \E d \in TrailDocs, g \in TrailGaps :
    \/ \E t \in TrailBytes \cup {<<>>} :
         Start([kind |-> "trailing", trail |-> t, variables |-> FALSE],
               Doc(d) \o g \o t, Doc(d))
    \/ \E t \in TrailOpenVariables :
         Start([kind |-> "trailing", trail |-> t, variables |-> TRUE],
               Doc(d) \o g \o t, Doc(d))

SpecTrailing == InitTrailing /\ [][Next]_vars

\* C12: ReadDocument returns nil only with the whole input consumed, and
\* a document followed by bytes that are no definition is an error of
\* ReadDocument and no hash of AppendQueryHash.
TrailingBytesFail ==
  given.kind = "trailing" =>
    /\ \E r \in {Call("ReadDocument", <<>>, a)} : r.err = nil => r.s = <<>>
    /\ (given.trail # <<>> /\ pc # "a")
         => /\ pc = "done"
            /\ err \in {ErrUnexpectedEOF, ErrUnexpectedToken}
            /\ buffer = <<>>

\* The same without the operations of unclosed variable definitions.
TrailingBytesFailPlain ==
  (given.kind = "trailing" /\ ~given.variables) => TrailingBytesFail

(***************************************************************************)
(* CompareWithBuffer with a buffer of the caller.                          *)
(***************************************************************************)
\* The buffer left as the caller passed it.
KeepBuffer(buf) == buf

\* if buffer == nil { buffer = make([]byte, 0, size*2) }
\* else { buffer = buffer[:0] }: of either, a buffer of length 0.
PrepareBuffer(buf) == IF buf = <<>> THEN <<>> ELSE Slice(buf, 0, 0)

\* CompareWithBuffer(buffer, h, a, b) on entry.
StartWithBuffer(g, buf, x, y) ==
  /\ given = g
  /\ a = x
  /\ b = y
  /\ pc = "start"
  /\ h = <<>>
  /\ buffer = buf
  /\ err = nil
  /\ calls = <<>>
  /\ out = Silent

Prepare ==
  /\ pc = "start"
  /\ buffer' = PrepareBuffer(buffer)
  /\ pc' = "a"
  /\ UNCHANGED <<given, a, b, h, err, calls, out>>

NextWithBuffer == Prepare \/ HashA \/ HashB \/ Equal

\* The buffers of the callers: nil, one stale digest, two stale digests,
\* and the digests of an earlier comparison of `{f}` with itself.
CallerBuffers ==
  {<<>>, <<<<0>>>>, <<<<0>>, <<1>>>>,
   <<HPrefQuery \o HPrefSelectionSet \o HPrefField \o Tk.f
       \o HPrefSelectionSetEnd,
     HPrefQuery \o HPrefSelectionSet \o HPrefField \o Tk.f
       \o HPrefSelectionSetEnd>>}

CompareInputs ==
  {Doc(FormatDocs[1]), <<Ch_hash, 99, Ch_lf>> \o Doc(FormatDocs[1]),
   Doc(<<Tk.lbrace, Tk.g, Tk.rbrace>>),
   Doc(<<Tk.lbrace, Tk.f, Tk.g, Tk.rbrace>>),
   <<>>, Doc(<<Tk.lbrace, Tk.f>>), Doc(<<Tk.lbrace, Tk.f, Tk.rbrace>>) \o <<63>>}

InitBuffer ==
  \E buf \in CallerBuffers, x \in CompareInputs, y \in CompareInputs :
    StartWithBuffer([kind |-> "buffer", buf |-> buf], buf, x, y)

SpecBuffer == InitBuffer /\ [][NextWithBuffer]_vars

\* C13: with any buffer CompareWithBuffer returns what Compare returns: the
\* error of a, else the error of b, else nil for equal digests and
\* ErrQueriesDiffer for different ones.
CompareIgnoresBuffer ==
  (given.kind = "buffer" /\ pc = "done") =>
    \E ra \in {AppendQueryHash(<<>>, a)} :
      \E rb \in {AppendQueryHash(<<>>, b)} :
        err = IF ra.err # nil THEN ra.err
              ELSE IF rb.err # nil THEN rb.err
              ELSE IF ra.buffer = rb.buffer THEN nil
              ELSE ErrQueriesDiffer

CompareIgnoresBufferWitness ==
  /\ given.kind = "buffer"
  /\ given.buf = <<<<0>>, <<1>>>>
  /\ a = Doc(FormatDocs[1])
  /\ b = <<Ch_hash, 99, Ch_lf>> \o Doc(FormatDocs[1])
  /\ pc = "done"
  /\ err = nil


\* C14: AppendQueryHash returns the buffer of the caller followed by the
\* digest when the document parses, and no buffer with ErrUnexpectedEOF or
\* ErrUnexpectedToken when it does not; the digest of a is still in the
\* buffer after the digest of b was appended.
AppendKeepsBuffer ==
  given.kind = "buffer" =>
    /\ \E r \in {AppendQueryHash(given.buf, a)} :
         /\ r.err = nil =>
              /\ r.buffer = given.buf \o <<Concat(r.h)>>
              /\ pc = "b" => buffer = <<Concat(r.h)>>
              /\ pc = "equal" => buffer = <<Concat(r.h), Concat(h)>>
         /\ r.err # nil =>
              /\ r.buffer = <<>>
              /\ r.err \in {ErrUnexpectedEOF, ErrUnexpectedToken}
    /\ (pc = "done" /\ err \in {ErrUnexpectedEOF, ErrUnexpectedToken})
         => buffer = <<>>

AppendKeepsBufferWitness ==
  /\ given.kind = "buffer"
  /\ given.buf = <<<<0>>, <<1>>>>
  /\ AppendQueryHash(given.buf, a).buffer
       = <<<<0>>, <<1>>, HPrefQuery \o HPrefSelectionSet \o HPrefField
                          \o Tk.g \o HPrefSelectionSetEnd>>
  /\ b = Doc(FormatDocs[1])
  /\ pc = "equal"
  /\ Len(buffer) = 2


\* C15: each call of AppendQueryHash gives the digest a Reset, then Write
\* calls alone, then one Sum when the document parses and none when it does
\* not; the digest that is summed for b holds what ReadDocument writes for b
\* into a fresh digest, and nothing of a.
DigestCallOrder ==
  /\ [][/\ (pc \in {"a", "b"} /\ pc' # pc) => calls' # calls
        /\ calls' # calls =>
             LET new == SubSeq(calls', Len(calls) + 1, Len(calls'))
                 last == IF err' = nil THEN "Sum" ELSE "Write"
             IN /\ calls' = calls \o new
                /\ new[1] = "Reset"
                /\ \A i \in 2 .. Len(new) - 1 : new[i] = "Write"
                /\ Len(new) = 1 => err' # nil
                /\ Len(new) > 1 => new[Len(new)] = last
                /\ Len(h') = Len(new) - (IF err' = nil THEN 2 ELSE 1)]_vars
  /\ [](pc = "equal" =>
          \E r \in {Call("ReadDocument", <<>>, SkipIgnorables(b))} :
            /\ h = r.h
            /\ buffer[2] = Concat(r.h))

DigestCallOrderWitness ==
  /\ given.kind = "buffer"
  /\ a = Doc(FormatDocs[1])
  /\ b = Doc(<<Tk.lbrace, Tk.f, Tk.g, Tk.rbrace>>)
  /\ pc = "done"
  /\ err = ErrQueriesDiffer
  /\ calls = <<"Reset", "Write", "Write", "Write", "Write", "Write", "Sum",
               "Reset", "Write", "Write", "Write", "Write", "Write", "Write",
               "Write", "Sum">>

(***************************************************************************)
(* A byte below 0x20 inside a string or a block string.                    *)
(***************************************************************************)
\* The bytes of the 27 markers.
MarkerBytes ==
  {m[1] : m \in
     {HPrefQuery, HPrefMutation, HPrefSubscription, HPrefFragmentDefinition,
      HPrefVariableDefinition, HPrefDirective, HPrefField, HPrefType,
      HPrefFieldAliasedName, HPrefFragmentSpread, HPrefInlineFragment,
      HPrefArgument, HPrefSelectionSet, HPrefSelectionSetEnd,
      HPrefValueInputObject, HPrefValueInputObjectField, HPrefInputObjectEnd,
      HPrefValueNull, HPrefValueTrue, HPrefValueFalse, HPrefValueInteger,
      HPrefValueFloat, HPrefValueEnum, HPrefValueString, HPrefValueList,
      HPrefValueListEnd, HPrefValueVariable}}

\* Other bytes: NUL, 0x10, the three white space bytes, a space, a letter.
PlainBytes == {0, 16, Ch_tab, Ch_lf, Ch_cr, Ch_space, 120}

\* What stands in the string before the byte and after it.
BeforeByte ==
  {<<>>, <<97>>, <<Ch_backslash>>, <<Ch_backslash, Ch_lowerN>>,
   <<Ch_backslash, Ch_lowerU>>, <<Ch_backslash, Ch_lowerU, Ch_zero>>,
   <<Ch_lf>>, <<Ch_lf, Ch_space>>, <<Ch_quote, Ch_quote>> }
AfterByte == {<<>>, <<97>>, <<Ch_lf>>}

\* What follows the closing delimiter of the string.
AfterString ==
  {<<>>, <<Ch_rbrace>>, <<Ch_rparen, Ch_rbrace>>}

StringOpen == <<Ch_lbrace, 102, Ch_lparen, 97, Ch_colon>>

InitMarker ==
  \E c \in MarkerBytes \cup PlainBytes, pre \in BeforeByte,
     post \in AfterByte, tl \in AfterString :
    \E q \in {<<Ch_quote>>, StrQuotes} :
      /\ (q = <<Ch_quote>>) => (Ch_quote \notin {pre[i] : i \in 1 .. Len(pre)})
      /\ Start([kind |-> "marker", byte |-> c, block |-> (q = StrQuotes)],
               StringOpen \o q \o pre \o <<c>> \o post \o q \o tl,
               StringOpen \o <<Ch_quote, Ch_quote>> \o <<Ch_rparen, Ch_rbrace>>)

SpecMarker == InitMarker /\ [][Next]_vars

\* C16: no byte of a marker is written to the digest as the content of a
\* string or of a block string, and a document with such a byte inside a
\* string or a block string ends in ErrUnexpectedToken.
MarkerBytesRejected ==
  given.kind = "marker" =>
    /\ pc = "b" =>
         \A i \in 8 .. Len(h) - 1 :
           \A j \in 1 .. Len(h[i]) : h[i][j] \notin MarkerBytes
    /\ (given.byte \in MarkerBytes /\ pc # "a")
         => (pc = "done" /\ err = ErrUnexpectedToken)

\* The same with any of the two errors.
MarkerBytesNotHashed ==
  given.kind = "marker" =>
    /\ pc = "b" =>
         \A i \in 8 .. Len(h) - 1 :
           \A j \in 1 .. Len(h[i]) : h[i][j] \notin MarkerBytes
    /\ (given.byte \in MarkerBytes /\ pc # "a")
         => (pc = "done" /\ err \in {ErrUnexpectedToken, ErrUnexpectedEOF}
             /\ buffer = <<>>)

(***************************************************************************)
(* Any bytes: the beginning of a construct and then bytes drawn freely.    *)
(***************************************************************************)
MaxTail == 2

\* The bytes the parser tells apart, one or two of each class.
TailBytes ==
  {Ch_lbrace, Ch_rbrace, Ch_lparen, Ch_rparen, Ch_lbracket, Ch_rbracket,
   Ch_dollar, Ch_colon, Ch_at, Ch_quote, Ch_backslash, Ch_dot, Ch_minus,
   Ch_zero, Ch_space, Ch_lf, Ch_lowerU, 120}

\* Where the free bytes begin.
Beginnings ==
  {<<>>, <<Ch_lbrace>>, <<Ch_lbrace, 120>>, StrQuery, StrQuery \o <<Ch_lparen>>,
   StrQuery \o <<Ch_lparen, Ch_dollar, 118, Ch_colon>>,
   StrQuery \o <<Ch_lparen, Ch_dollar, 118, Ch_colon, 84>>,
   StrMutation, <<113, 117>>, StrFragment \o <<Ch_space>>,
   StrFragment \o <<Ch_space, 70, Ch_space>> \o StrOn \o <<Ch_space>>,
   <<Ch_lbrace>> \o StrDots, <<Ch_lbrace>> \o StrDots \o StrOn,
   <<Ch_lbrace, 120, Ch_at, 100>>, StringOpen, StringOpen \o <<Ch_lbracket>>,
   StringOpen \o <<Ch_lbrace>>, StringOpen \o <<Ch_lbrace, 107, Ch_colon>>,
   StringOpen \o <<Ch_quote>>, StringOpen \o StrQuotes,
   StringOpen \o StrQuotes \o <<Ch_lf>>,
   StringOpen \o <<Ch_quote, Ch_backslash>>,
   StringOpen \o <<Ch_minus>>, StringOpen \o <<Ch_zero, Ch_dot>>,
   StringOpen \o <<49, Ch_lowerE>>, StringOpen \o <<Ch_dollar>>}

InitBytes ==
  \E p \in Beginnings, t \in SeqsOf(TailBytes, 0, MaxTail) :
    Start([kind |-> "bytes", beginning |-> p], p \o t,
          <<Ch_lbrace, 120, Ch_rbrace>>)

SpecBytes == InitBytes /\ [][Next]_vars

\* C17: AppendQueryHash returns for any bytes, with a hash and a nil error
\* or with no buffer and one of ErrUnexpectedEOF and ErrUnexpectedToken.
AlwaysReturns ==
  given.kind = "bytes" =>
    /\ pc = "b" => (err = nil /\ buffer = <<Concat(h)>>)
    /\ pc = "equal" => (err = nil /\ Len(buffer) = 2)
    /\ pc = "done" =>
         \/ err \in {ErrUnexpectedEOF, ErrUnexpectedToken} /\ buffer = <<>>
         \/ err \in {nil, ErrQueriesDiffer} /\ Len(buffer) = 2

AlwaysReturnsWitness ==
  /\ given.kind = "bytes"
  /\ a = StrQuery \o <<Ch_lparen, Ch_dollar, Ch_lbrace>>
  /\ pc = "done"
  /\ err = ErrUnexpectedEOF

(***************************************************************************)
(* A loop of the parser started at any byte of a document.                 *)
(***************************************************************************)
ProgressDocs ==
  {Doc(FormatDocs[d]) : d \in 1 .. Len(FormatDocs)}
    \cup {Render(FormatDocs[d], Filled(FormatDocs[d], 0, <<Ch_hash, 99, Ch_lf>>))
            : d \in {2, 4}}
    \cup {Render(FormatDocs[d], Filled(FormatDocs[d], 0, <<Ch_comma>>))
            : d \in {3, 8}}
    \cup {Doc(TruncDocs[d]) : d \in 1 .. Len(TruncDocs)}
    \cup {StringOpen \o <<Ch_lbracket, Ch_lbracket, Ch_rbracket, Ch_lbrace,
                          Ch_rbrace, Ch_rbracket, Ch_rparen, Ch_rbrace>>,
          StrQuery \o <<Ch_lparen, Ch_dollar, Ch_lbrace, 120, Ch_rbrace>>,
          <<Ch_hash, Ch_hash, Ch_lf, Ch_hash>>}

PassNames ==
  {"DocumentPass", "SelectionSetPass", "ArgumentsPass", "DirectivesPass",
   "VariableDefinitionsPass", "ListPass", "InputObjectPass"}

\* at is the byte of a where the pass of a loop begins.
InitProgress ==
  \E d \in ProgressDocs :
    \E i \in 0 .. Len(d) :
      Start([kind |-> "progress", at |-> i], d, d)

SpecProgress == InitProgress /\ [][Next]_vars

\* C18: a pass of a loop of the parser, or of SkipIgnorables, that is
\* followed by another pass leaves fewer bytes than it found, wherever in a
\* document it begins; the walk of the document ends.
EveryPassConsumes ==
  given.kind = "progress" =>
    /\ \A fn \in PassNames :
         \E p \in {Call(fn, <<>>, From(a, given.at))} :
           p.err = Continue => Len(p.s) < Len(a) - given.at
    /\ given.at < Len(a) =>
         \E p \in {SkipIgnorablesPass(From(a, given.at))} :
           p.err = Continue => Len(p.s) < Len(a) - given.at
    /\ pc = "done" => err \in {nil, ErrUnexpectedEOF, ErrUnexpectedToken}

EveryPassConsumesWitness ==
  /\ given.kind = "progress"
  /\ a = Doc(FormatDocs[2])
  /\ given.at = 10
  /\ \E p \in {Call("ArgumentsPass", <<>>, From(a, given.at))} :
       p.err = Continue /\ p.s = Doc(<<Tk.b, Tk.colon, Tk.strAbc, Tk.rparen, Tk.rbrace>>)
  /\ pc = "done"


(***************************************************************************)
(* The command gqlhash: run of cmd/gqlhash/main.go.  The flags are the     *)
(* values cli.Parse leaves in fFile, fFormat, fHashFunction and fVersion.  *)
(***************************************************************************)
\* The names of the formats and of the hash functions, as bytes.
FlagNames ==
  [ hex |-> <<104, 101, 120>>,
    base32 |-> <<98, 97, 115, 101, 51, 50>>,
    base64 |-> <<98, 97, 115, 101, 54, 52>>,
    sha1 |-> <<115, 104, 97, 49>>, sha2 |-> <<115, 104, 97, 50>>,
    sha3 |-> <<115, 104, 97, 51>>, md5 |-> <<109, 100, 53>>,
    blake2b |-> <<98, 108, 97, 107, 101, 50, 98>>,
    blake2s |-> <<98, 108, 97, 107, 101, 50, 115>>,
    fnv |-> <<102, 110, 118>>,
    crc32 |-> <<99, 114, 99, 51, 50>>, crc64 |-> <<99, 114, 99, 54, 52>> ]

\* strings.EqualFold on ASCII: equal up to the case of the letters.
ToLower(c) == IF c \in 65 .. 90 THEN c + 32 ELSE c

EqualFold(s, t) ==
  /\ Len(s) = Len(t)
  /\ \A i \in 1 .. Len(s) : ToLower(s[i]) = ToLower(t[i])

\* The zero Format and the zero HashFunction: no supported value.
Unsupported == "0"

parseFormat(s) ==
  IF EqualFold(s, FlagNames.hex) THEN "FormatHex"
  ELSE IF EqualFold(s, FlagNames.base32) THEN "FormatBase32"
  ELSE IF EqualFold(s, FlagNames.base64) THEN "FormatBase64"
  ELSE Unsupported

parseHashFunction(s) ==
  IF EqualFold(s, FlagNames.sha1) THEN "HashFunctionSHA1"
  ELSE IF EqualFold(s, FlagNames.sha2) THEN "HashFunctionSHA2"
  ELSE IF EqualFold(s, FlagNames.sha3) THEN "HashFunctionSHA3"
  ELSE IF EqualFold(s, FlagNames.md5) THEN "HashFunctionMD5"
  ELSE IF EqualFold(s, FlagNames.blake2b) THEN "HashFunctionBLAKE2B"
  ELSE IF EqualFold(s, FlagNames.blake2s) THEN "HashFunctionBLAKE2S"
  ELSE IF EqualFold(s, FlagNames.fnv) THEN "HashFunctionFNV"
  ELSE IF EqualFold(s, FlagNames.crc32) THEN "HashFunctionCRC32"
  ELSE IF EqualFold(s, FlagNames.crc64) THEN "HashFunctionCRC64"
  ELSE Unsupported

\* The bytes of the sum of the hasher run makes for a hash function:
\* sha1.New, sha256.New, sha3.New512, md5.New, blake2b.New256,
\* blake2s.New256, fnv.New64, crc32.NewIEEE, crc64.New.
HashSize ==
  [ HashFunctionSHA1 |-> 20, HashFunctionSHA2 |-> 32, HashFunctionSHA3 |-> 64,
    HashFunctionMD5 |-> 16, HashFunctionBLAKE2B |-> 32,
    HashFunctionBLAKE2S |-> 32, HashFunctionFNV |-> 8,
    HashFunctionCRC32 |-> 4, HashFunctionCRC64 |-> 8 ]

\* The bytes an encoder turns into text at a time: hex every byte, base32
\* groups of 5, base64 groups of 3.
Quantum == [FormatHex |-> 1, FormatBase32 |-> 5, FormatBase64 |-> 3]

\* NewEncoder(stdout).Write(sum), the encoder never closed: the whole
\* groups of the n bytes of sum reach stdout in one write, the bytes after
\* the last whole group stay in the encoder; no whole group, no write.
EncoderWrite(format, sum, n) ==
  LET whole == n - (n % Quantum[format])
  IN IF whole = 0 THEN <<>>
     ELSE <<[format |-> format, sum |-> sum, bytes |-> whole]>>

\* run on entry: nothing read, nothing written.
StartRun(g) ==
  /\ given = g
  /\ a = <<>>
  /\ b = <<>>
  /\ pc = "run"
  /\ h = <<>>
  /\ buffer = <<>>
  /\ err = nil
  /\ calls = <<>>
  /\ out = Silent

\* printVersionInfoAndExit: whether the executable is found and opened is
\* the environment's; every message goes to stdout.
printVersionInfoAndExit(found) ==
  IF found
    THEN [Silent EXCEPT !.stdout = <<"gqlhash v", "MIT License",
                                     "Copyright", "info">>,
                        !.code = 0]
    ELSE [Silent EXCEPT !.stdout = <<"resolving executable file path">>,
                        !.code = 1]

\* From the flags to the check of -hash: -version, then -format, then -hash.
RunFlags ==
  /\ pc = "run"
  /\ IF given.version
       THEN /\ \E found \in BOOLEAN : out' = printVersionInfoAndExit(found)
            /\ pc' = "done"
     ELSE IF parseFormat(given.format) = Unsupported
       THEN /\ out' = [out EXCEPT !.stderr = Append(@, "unsupported format"),
                                  !.code = 2]
            /\ pc' = "done"
     ELSE IF parseHashFunction(given.hash) = Unsupported
       THEN /\ out' = [out EXCEPT
                         !.stderr = Append(@, "unsupported hash function"),
                         !.code = 2]
            /\ pc' = "done"
     ELSE /\ pc' = "read"
          /\ UNCHANGED out
  /\ UNCHANGED <<given, a, b, h, buffer, err, calls>>

\* os.ReadFile(*fFile) when -file is set, io.ReadAll(stdin) when not, then
\* the check for an empty input.
RunRead ==
  /\ pc = "read"
  /\ LET src == IF given.file # <<>> THEN given.disk ELSE given.stdin
     IN IF ~src.ok
          THEN /\ out' = [out EXCEPT
                            !.stderr = Append(@, IF given.file # <<>>
                                                   THEN "error reading file"
                                                   ELSE "error reading stdin"),
                            !.code = 1, !.read = TRUE]
               /\ pc' = "done"
               /\ UNCHANGED a
        ELSE IF Len(src.bytes) < 1
          THEN /\ out' = [out EXCEPT !.stderr = Append(@, "no input"),
                                     !.code = 1, !.read = TRUE]
               /\ pc' = "done"
               /\ a' = src.bytes
        ELSE /\ out' = [out EXCEPT !.read = TRUE]
             /\ pc' = "hash"
             /\ a' = src.bytes
  /\ UNCHANGED <<given, b, h, buffer, err, calls>>

\* sum, err := gqlhash.AppendQueryHash(nil, hasher, input), then the sum
\* through the encoder of the format to stdout.
RunHash ==
  /\ pc = "hash"
  /\ \E r \in {AppendQueryHash(<<>>, a)} :
        /\ h' = r.h
        /\ buffer' = r.buffer
        /\ err' = r.err
        /\ calls' = calls \o r.calls
        /\ out' = IF r.err # nil
                    THEN [out EXCEPT !.stderr = Append(@, "syntax error"),
                                     !.code = 1]
                    ELSE [out EXCEPT
                            !.stdout = @ \o EncoderWrite(
                                parseFormat(given.format), r.buffer,
                                HashSize[parseHashFunction(given.hash)]),
                            !.code = 0]
  /\ pc' = "done"
  /\ UNCHANGED <<given, a, b>>

NextRun == RunFlags \/ RunRead \/ RunHash

\* The flags, the file and the standard input of a run: every format and
\* hash function, names in capitals, names run does not know, a file that
\* is there and one that is not, inputs that parse, that do not, and none.
InitRun ==
  LET upper(s) == [i \in 1 .. Len(s) |-> IF s[i] \in 97 .. 122
                                           THEN s[i] - 32 ELSE s[i]]
      formats == {FlagNames.hex, FlagNames.base32, FlagNames.base64,
                  upper(FlagNames.base64),
                  <<98, 97, 115, 101, 49, 48>>, <<>>}
      hashes == {FlagNames.sha1, FlagNames.sha2, FlagNames.sha3,
                 FlagNames.md5, FlagNames.blake2b, FlagNames.blake2s,
                 FlagNames.fnv, FlagNames.crc32, FlagNames.crc64,
                 upper(FlagNames.md5), <<115, 104, 97, 57>>}
      inputs == {[ok |-> TRUE, bytes |-> <<>>],
                 [ok |-> TRUE, bytes |-> Doc(<<Tk.lbrace, Tk.f, Tk.rbrace>>)],
                 [ok |-> TRUE, bytes |-> <<Ch_lbrace>>],
                 [ok |-> TRUE, bytes |-> <<Ch_space>>],
                 [ok |-> FALSE, bytes |-> <<>>]}
  IN \E fm \in formats, hf \in hashes, in \in inputs, v \in BOOLEAN,
        file \in {<<>>, <<113>>} :
       /\ v => fm = FlagNames.hex /\ hf = FlagNames.sha1
       /\ StartRun([kind |-> "run", version |-> v, format |-> fm,
                    hash |-> hf, file |-> file,
                    disk |-> IF file = <<>>
                               THEN [ok |-> FALSE, bytes |-> <<>>] ELSE in,
                    stdin |-> IF file = <<>>
                                THEN in ELSE [ok |-> TRUE, bytes |-> <<>>]])

SpecRun == InitRun /\ [][NextRun]_vars

\* The flags name a format and a hash function run knows.
RunSupported ==
  /\ parseFormat(given.format) # Unsupported
  /\ parseHashFunction(given.hash) # Unsupported

\* The input is read, is not empty and parses.
RunParses ==
  \E src \in {IF given.file # <<>> THEN given.disk ELSE given.stdin} :
    /\ src.ok
    /\ src.bytes # <<>>
    /\ AppendQueryHash(<<>>, src.bytes).err = nil

\* Every run that does not write the hash: nothing on stdout, one message
\* on stderr, 2 for a format or hash function run does not know, with no
\* input read, and 1 for the rest; 0 and text on stdout only for flags run
\* knows and an input that parses.
RunFailuresReported ==
  given.kind = "run" /\ pc = "done" /\ ~given.version =>
    /\ ~(RunSupported /\ RunParses) =>
         /\ out.stdout = <<>>
         /\ Len(out.stderr) = 1
         /\ out.code = IF RunSupported THEN 1 ELSE 2
         /\ out.code = 2 => ~out.read /\ a = <<>>
    /\ out.code = 0 => RunSupported /\ RunParses /\ out.stderr = <<>>

\* C19: run returns 0 with the encoded hash on stdout, the whole of it,
\* when -format and -hash are supported, the input is not empty and the
\* document parses; every other run but -version leaves stdout empty,
\* writes one message to stderr and returns 2 for an unsupported -format or
\* -hash, before any input is read, and 1 for an unreadable file, an empty
\* input or a syntax error.
RunOutcome ==
  given.kind = "run" /\ pc = "done" /\ ~given.version =>
    IF RunSupported /\ RunParses
      THEN /\ out.code = 0
           /\ out.stderr = <<>>
           /\ out.stdout =
                <<[format |-> parseFormat(given.format), sum |-> buffer,
                   bytes |-> HashSize[parseHashFunction(given.hash)]]>>
      ELSE /\ out.stdout = <<>>
           /\ Len(out.stderr) = 1
           /\ out.code = IF RunSupported THEN 1 ELSE 2
           /\ out.code = 2 => ~out.read /\ a = <<>>

\* A run of -hash crc32 -format base32 on `{f}`: 0, and nothing on stdout.
RunNothingWritten ==
  /\ given.kind = "run"
  /\ given.hash = FlagNames.crc32
  /\ given.format = FlagNames.base32
  /\ a = <<Ch_lbrace, 102, Ch_rbrace>>
  /\ pc = "done"
  /\ out.code = 0
  /\ out.stdout = <<>>


(***************************************************************************)
(* Lists and input objects as the value of an argument, empty ones and     *)
(* ones inside others.                                                     *)
(***************************************************************************)
MaxListItems == 2

\* The values inside a list or an input object: 1, [], {}, [1], {a:1}.
BalanceItems ==
  {<<49>>, <<Ch_lbracket, Ch_rbracket>>, <<Ch_lbrace, Ch_rbrace>>,
   <<Ch_lbracket, 49, Ch_rbracket>>,
   <<Ch_lbrace, 97, Ch_colon, 49, Ch_rbrace>>}

\* The items of a list, a comma between two.
RECURSIVE Commas(_)
Commas(items) ==
  IF items = <<>> THEN <<>>
  ELSE IF Len(items) = 1 THEN items[1]
  ELSE items[1] \o <<Ch_comma>> \o Commas(Tail(items))

BalanceValues ==
  {<<Ch_lbracket>> \o Commas(items) \o <<Ch_rbracket>> :
     items \in UNION {[1 .. n -> BalanceItems] : n \in 0 .. MaxListItems}}
    \cup {<<Ch_lbrace, Ch_rbrace>>}
    \cup {<<Ch_lbrace, 97, Ch_colon>> \o x \o <<Ch_rbrace>> : x \in BalanceItems}
    \cup {<<Ch_lbrace, 97, Ch_colon>> \o x \o <<Ch_comma, 98, Ch_colon>> \o y
            \o <<Ch_rbrace>> : x, y \in BalanceItems}

\* `{f(a:` value `)}` compared with itself.
InitBalance ==
  \E v \in BalanceValues :
    Start([kind |-> "balance", value |-> v],
          StringOpen \o v \o <<Ch_rparen, Ch_rbrace>>,
          StringOpen \o v \o <<Ch_rparen, Ch_rbrace>>)

SpecBalance == InitBalance /\ [][Next]_vars

\* The markers of the chunks w close what they open, inside out: open holds the
\* markers opened and not yet closed, the last opened first.
RECURSIVE Nested(_, _)
Nested(w, open) ==
  IF w = <<>> THEN open = <<>>
  ELSE IF Head(w) \in {HPrefValueList, HPrefValueInputObject}
    THEN Nested(Tail(w), <<Head(w)>> \o open)
  ELSE IF Head(w) = HPrefValueListEnd
    THEN open # <<>> /\ Head(open) = HPrefValueList
           /\ Nested(Tail(w), Tail(open))
  ELSE IF Head(w) = HPrefInputObjectEnd
    THEN open # <<>> /\ Head(open) = HPrefValueInputObject
           /\ Nested(Tail(w), Tail(open))
  ELSE Nested(Tail(w), open)

\* s holds `[]` or `{}`.
HasEmpty(s) ==
  \E i \in 1 .. Len(s) - 1 :
    \/ s[i] = Ch_lbracket /\ s[i + 1] = Ch_rbracket
    \/ s[i] = Ch_lbrace /\ s[i + 1] = Ch_rbrace

\* C20: after a successful ReadValue the List and ListEnd markers and the
\* InputObject and InputObjectEnd markers written are balanced and nested;
\* `[]` writes List then ListEnd, `{}` writes InputObject then
\* InputObjectEnd.
MarkersBalanced ==
  given.kind = "balance" =>
    \E v \in {Call("ReadValue", <<>>, given.value)} :
      v.err = nil =>
        /\ Nested(v.h, <<>>)
        /\ given.value = <<Ch_lbracket, Ch_rbracket>> =>
             v.h = <<HPrefValueList, HPrefValueListEnd>>
        /\ given.value = <<Ch_lbrace, Ch_rbrace>> =>
             v.h = <<HPrefValueInputObject, HPrefInputObjectEnd>>

\* The values with no `[]` and no `{}` in them are read, and their markers
\* are balanced and nested.
MarkersBalancedNonEmpty ==
  given.kind = "balance" /\ ~HasEmpty(given.value) =>
    \E v \in {Call("ReadValue", <<>>, given.value)} :
      v.err = nil /\ v.s = <<>> /\ Nested(v.h, <<>>)

\* `{f(a:[])}` is read to its end and the List marker is the last written
\* for the value: no ListEnd follows it.
EmptyListLeftOpen ==
  /\ given.kind = "balance"
  /\ given.value = <<Ch_lbracket, Ch_rbracket>>
  /\ pc = "done"
  /\ err = nil
  /\ Call("ReadValue", <<>>, given.value).h = <<HPrefValueList>>


(***************************************************************************)
(* A directive on the last variable definition of an operation against the *)
(* same directive on the operation.                                        *)
(***************************************************************************)
VarDirHeads ==
  {<<Tk.query>>, <<Tk.query, Tk.Q>>, <<Tk.mutation>>, <<Tk.mutation, Tk.Q>>,
   <<Tk.subscription>>, <<Tk.subscription, Tk.Q>>}

\* The variable definitions before the last, the type of the last, its
\* default value, and the directive.
VarDirEarlier == {<<>>, <<Tk.dollar, Tk.v, Tk.colon, Tk.T>>}
VarDirTypes == {<<Tk.T>>, <<Tk.lbracket, Tk.T, Tk.rbracket, Tk.bang>>}
VarDirDefaults == {<<>>, <<Tk.equals, Tk.one>>}
VarDirDirectives ==
  {<<Tk.at, Tk.d>>,
   <<Tk.at, Tk.d, Tk.lparen, Tk.k, Tk.colon, Tk.one, Tk.rparen>>}

\* a carries the directive inside the parentheses, after the last variable
\* definition; b carries it after the parentheses.
InitVarDir ==
  \E head \in VarDirHeads, earlier \in VarDirEarlier, type \in VarDirTypes,
     default \in VarDirDefaults, dir \in VarDirDirectives :
    LET defs == <<Tk.lparen>> \o earlier \o <<Tk.dollar, Tk.a, Tk.colon>>
                  \o type \o default
        body == <<Tk.lbrace, Tk.x, Tk.rbrace>>
    IN Start([kind |-> "vardir", head |-> head, dir |-> dir],
             Doc(head \o defs \o dir \o <<Tk.rparen>> \o body),
             Doc(head \o defs \o <<Tk.rparen>> \o dir \o body))

SpecVarDir == InitVarDir /\ [][Next]_vars

\* C21: a directive on the last variable definition of an operation and
\* the same directive on the operation itself give different digest byte
\* streams: Compare returns ErrQueriesDiffer.
VariableDirectiveDiffers ==
  given.kind = "vardir" /\ pc = "done" => err = ErrQueriesDiffer

\* `query Q($a:T @d){x}` and `query Q($a:T) @d {x}` are both read and
\* Compare returns nil: the digests are equal.
VariableDirectiveSame ==
  /\ given.kind = "vardir"
  /\ a = Doc(<<Tk.query, Tk.Q, Tk.lparen, Tk.dollar, Tk.a, Tk.colon, Tk.T,
               Tk.at, Tk.d, Tk.rparen, Tk.lbrace, Tk.x, Tk.rbrace>>)
  /\ b = Doc(<<Tk.query, Tk.Q, Tk.lparen, Tk.dollar, Tk.a, Tk.colon, Tk.T,
               Tk.rparen, Tk.at, Tk.d, Tk.lbrace, Tk.x, Tk.rbrace>>)
  /\ pc = "done"
  /\ err = nil


\* Both documents of every pair are read and their digests are equal:
\* nothing is written where the variable definitions end.
VariableDirectiveEqual ==
  given.kind = "vardir" /\ pc = "done" => err = nil


(***************************************************************************)
(* Names in value position that begin with null, true or false.            *)
(***************************************************************************)
KeywordMarkers ==
  << <<StrNull, HPrefValueNull>>, <<StrTrue, HPrefValueTrue>>,
     <<StrFalse, HPrefValueFalse>> >>

\* What follows the keyword in the name: x, X, y, x1, _.
KeywordTails == {<<120>>, <<88>>, <<121>>, <<120, 49>>, <<Ch_underscore>>}

\* The list the value stands in, before and after it.
KeywordLists ==
  { <<<<Tk.lbracket>>, <<Tk.rbracket>>>>,
    <<<<Tk.lbracket, Tk.one>>, <<Tk.rbracket>>>>,
    <<<<Tk.lbracket>>, <<Tk.one, Tk.rbracket>>>>,
    <<<<Tk.lbracket, Tk.lbracket>>, <<Tk.rbracket, Tk.rbracket>>>> }

\* a holds the name as one token, b the keyword and the rest of the name as
\* two tokens.
InitKeyword ==
  \E k \in 1 .. Len(KeywordMarkers), tail \in KeywordTails,
     list \in KeywordLists :
    LET open == <<Tk.lbrace, Tk.f, Tk.lparen, Tk.a, Tk.colon>> \o list[1]
        close == list[2] \o <<Tk.rparen, Tk.rbrace>>
    IN Start([kind |-> "keyword", keyword |-> KeywordMarkers[k][1],
              marker |-> KeywordMarkers[k][2], tail |-> tail],
             Doc(open \o <<KeywordMarkers[k][1] \o tail>> \o close),
             Doc(open \o <<KeywordMarkers[k][1], tail>> \o close))

SpecKeyword == InitKeyword /\ [][Next]_vars

\* C22: null, true and false alone are written as their marker; a name
\* that begins with one of them is read as one enum value and written as
\* the Enum marker and the whole name, so that the list with the name and
\* the list with the keyword and the rest as two values differ.
KeywordPrefixIsEnum ==
  given.kind = "keyword" =>
    /\ \E v \in {Call("ReadValue", <<>>, given.keyword)} :
         v.err = nil /\ v.h = <<given.marker>>
    /\ \E v \in {Call("ReadValue", <<>>, given.keyword \o given.tail)} :
         /\ v.err = nil
         /\ v.valueType = ValueTypeEnum
         /\ v.h = <<HPrefValueEnum, given.keyword \o given.tail>>
    /\ pc = "done" => err = ErrQueriesDiffer

\* What ReadValue does with such a name: the marker of the keyword alone is
\* written and the rest of the name is left to be read as the next value;
\* the two lists have equal digests.
KeywordPrefixSplits ==
  given.kind = "keyword" =>
    /\ \E v \in {Call("ReadValue", <<>>, given.keyword \o given.tail)} :
         v.err = nil /\ v.h = <<given.marker>> /\ v.s = given.tail
    /\ pc = "done" => err = nil

\* `{f(a:[nullx])}` and `{f(a:[null x])}` compared: nil.
KeywordPrefixSame ==
  /\ given.kind = "keyword"
  /\ a = StringOpen \o <<Ch_lbracket>> \o StrNull \o <<120, Ch_rbracket,
                                                       Ch_rparen, Ch_rbrace>>
  /\ b = StringOpen \o <<Ch_lbracket>> \o StrNull
           \o <<Ch_space, 120, Ch_rbracket, Ch_rparen, Ch_rbrace>>
  /\ pc = "done"
  /\ err = nil


(***************************************************************************)
(* The type of a variable with ignorable bytes between its tokens.         *)
(***************************************************************************)
\* T!, [T], [T]!, [[T]], [T!]!
SpacedTypes ==
  << <<Tk.T, Tk.bang>>,
     <<Tk.lbracket, Tk.T, Tk.rbracket>>,
     <<Tk.lbracket, Tk.T, Tk.rbracket, Tk.bang>>,
     <<Tk.lbracket, Tk.lbracket, Tk.T, Tk.rbracket, Tk.rbracket>>,
     <<Tk.lbracket, Tk.T, Tk.bang, Tk.rbracket, Tk.bang>> >>

\* The filler g between tokens i - 1 and i of the type, or between every
\* two tokens when i = 0; nothing before the first and after the last.
TypeGaps(toks, i, g) ==
  [j \in 1 .. Len(toks) + 1 |->
     IF j \in 2 .. Len(toks) /\ (i = 0 \/ i = j) THEN g ELSE <<>>]

\* `query($v:` type `){f}` with the type tight in a and spaced in b.
InitType ==
  \E t \in 1 .. Len(SpacedTypes), g \in Fillers :
    \E i \in {0} \cup (2 .. Len(SpacedTypes[t])) :
      LET open == Doc(<<Tk.query, Tk.lparen, Tk.dollar, Tk.v, Tk.colon>>)
          close == Doc(<<Tk.rparen, Tk.lbrace, Tk.f, Tk.rbrace>>)
          tight == Join(SpacedTypes[t])
          spaced == Render(SpacedTypes[t], TypeGaps(SpacedTypes[t], i, g))
      IN Start([kind |-> "type", tight |-> tight, spaced |-> spaced],
               open \o tight \o close, open \o spaced \o close)

SpecType == InitType /\ [][Next]_vars

\* C23: the bytes written after the Type marker hold no ignorable bytes:
\* a type with white space, commas or comments between its tokens is
\* written as the same type without them, and the digest is the same.
TypeSpacingIgnored ==
  given.kind = "type" =>
    /\ \E t \in {ReadType(given.spaced)} :
         t.err = nil /\ t.s = <<>> /\ t.typeDef = given.tight
    /\ pc = "done" => err = nil

\* What ReadType returns: the bytes of the source from the first token of
\* the type to its last, the ignorable bytes between them included; the
\* digests of the two documents differ.
TypePayloadIsSpan ==
  given.kind = "type" =>
    /\ \E t \in {ReadType(given.spaced)} :
         t.err = nil /\ t.s = <<>> /\ t.typeDef = given.spaced
    /\ pc = "done" => err = ErrQueriesDiffer

\* `query($v:[T]!){f}` against `query($v:[ T ] !){f}`: ErrQueriesDiffer.
TypeSpacingDiffers ==
  /\ given.kind = "type"
  /\ given.tight = <<Ch_lbracket, 84, Ch_rbracket, Ch_bang>>
  /\ given.spaced = <<Ch_lbracket, Ch_space, 84, Ch_space, Ch_rbracket,
                      Ch_space, Ch_bang>>
  /\ pc = "done"
  /\ err = ErrQueriesDiffer


(***************************************************************************)
(* `...on` with a comment right after `on`, then a type and a selection    *)
(* set.                                                                    *)
(***************************************************************************)
\* The comment after `on` and the ignorable bytes up to the type name.
OnComments ==
  {<<Ch_hash, Ch_lf>>, <<Ch_hash, 99, Ch_lf>>, <<Ch_hash, 99, Ch_lf, Ch_tab>>}

\* a is `{` pre `... on` type dir `{` sel `}}`, b the same with the
\* comment in the place of the space after `on`.
InitOnComment ==
  \E pre \in {<<>>, <<Tk.f>>}, gap \in {<<>>, <<Ch_space>>},
     comment \in OnComments, type \in {Tk.T, Tk.F, Tk.Q},
     dir \in {<<>>, <<Tk.at, Tk.d>>},
     sel \in {<<Tk.g>>, <<Tk.f, Tk.g>>} :
    LET open == Doc(<<Tk.lbrace>> \o pre \o <<Tk.dots>>) \o gap \o StrOn
        close == Doc(<<type>> \o dir \o <<Tk.lbrace>> \o sel
                       \o <<Tk.rbrace, Tk.rbrace>>)
    IN Start([kind |-> "oncomment", type |-> type],
             open \o <<Ch_space>> \o close, open \o comment \o close)

SpecOnComment == InitOnComment /\ [][Next]_vars

\* C24: `...on`, a comment, a type name and a selection set are read as an
\* inline fragment with that type condition and written as `... on T {...}`
\* is: no fragment spread is written and the digests are equal.
InlineFragmentAfterComment ==
  given.kind = "oncomment" =>
    /\ pc = "equal" => \A i \in 1 .. Len(h) : h[i] # HPrefFragmentSpread
    /\ pc = "done" => err = nil

\* What ReadSelectionSet does: a fragment spread named `on` and a field
\* named as the type are written, and the digests differ.
CommentAfterOnIsSpread ==
  given.kind = "oncomment" =>
    /\ pc = "equal" =>
         \E i \in 1 .. Len(h) - 3 :
           /\ h[i] = HPrefFragmentSpread
           /\ h[i + 1] = StrOn
           /\ h[i + 2] = HPrefField
           /\ h[i + 3] = given.type
    /\ pc = "done" => err = ErrQueriesDiffer

\* `{... on T{g}}` against `{...on#c` line feed `T{g}}`: ErrQueriesDiffer.
CommentAfterOnDiffers ==
  /\ given.kind = "oncomment"
  /\ a = <<Ch_lbrace>> \o StrDots \o <<Ch_space>> \o StrOn
         \o <<Ch_space, 84, Ch_lbrace, 103, Ch_rbrace, Ch_rbrace>>
  /\ b = <<Ch_lbrace>> \o StrDots \o <<Ch_space>> \o StrOn
         \o <<Ch_hash, 99, Ch_lf, 84, Ch_lbrace, 103, Ch_rbrace, Ch_rbrace>>
  /\ pc = "done"
  /\ err = ErrQueriesDiffer


(***************************************************************************)
(* Integer values: every text of `-`, `0`, `1` and `9`.                    *)
(***************************************************************************)
MaxIntLen == 3

IntTexts == SeqsOf({Ch_minus, Ch_zero, 49, 57}, 1, MaxIntLen)

\* `{f(a:` text `)}` compared with itself.
InitInt ==
  \E t \in IntTexts :
    Start([kind |-> "int", text |-> t],
          StringOpen \o t \o <<Ch_rparen, Ch_rbrace>>,
          StringOpen \o t \o <<Ch_rparen, Ch_rbrace>>)

SpecInt == InitInt /\ [][Next]_vars

\* p matches -?(0|[1-9][0-9]*).
IsIntText(p) ==
  LET digits == IF p # <<>> /\ p[1] = Ch_minus THEN Tail(p) ELSE p
  IN /\ digits # <<>>
     /\ \A i \in 1 .. Len(digits) : IsDigit(digits[i])
     /\ digits[1] = Ch_zero => Len(digits) = 1

\* C25: when ReadValue succeeds with ValueTypeInt the bytes written after
\* the Integer marker match -?(0|[1-9][0-9]*); a `-` with no digit after
\* it is not accepted.
IntegerPayloadWellFormed ==
  given.kind = "int" =>
    \E v \in {Call("ReadValue", <<>>, given.text \o <<Ch_rparen>>)} :
      /\ v.err = nil /\ v.valueType = ValueTypeInt =>
           /\ Len(v.h) = 2
           /\ v.h[1] = HPrefValueInteger
           /\ IsIntText(v.h[2])
      /\ given.text = <<Ch_minus>> => v.err # nil

\* What ReadIntValue accepts: the texts of the claim and, besides them, the
\* `-` alone, when a byte that is no digit follows it.
IntegerPayloadOrMinus ==
  given.kind = "int" =>
    \E v \in {Call("ReadValue", <<>>, given.text \o <<Ch_rparen>>)} :
      v.err = nil /\ v.valueType = ValueTypeInt =>
        /\ Len(v.h) = 2
        /\ v.h[1] = HPrefValueInteger
        /\ IsIntText(v.h[2]) \/ v.h[2] = <<Ch_minus>>

\* `{f(a:-)}` is read to its end: the value is an integer written as `-`.
MinusAloneAccepted ==
  /\ given.kind = "int"
  /\ given.text = <<Ch_minus>>
  /\ pc = "done"
  /\ err = nil
  /\ \E v \in {Call("ReadValue", <<>>, <<Ch_minus, Ch_rparen>>)} :
       v.valueType = ValueTypeInt /\ v.h = <<HPrefValueInteger, <<Ch_minus>>>>


(***************************************************************************)
(* Block strings drawn line by line: the indentation and the text of each  *)
(* line after the first, and whether the closing delimiter stands on a     *)
(* line of its own.                                                        *)
(***************************************************************************)
MaxLines == 2

\* A line: its leading spaces and tabs and its text, none, x or xy.
BlockLines ==
  {[pad |-> p, text |-> t] :
     p \in {<<>>} \cup Pads, t \in {<<>>, <<120>>, <<120, 121>>}}

\* The first line, a line feed before every line after it.
RECURSIVE BlockText(_)
BlockText(lines) ==
  IF lines = <<>> THEN <<>>
  ELSE <<Ch_lf>> \o Head(lines).pad \o Head(lines).text
         \o BlockText(Tail(lines))

InitPrefix ==
  \E first \in {<<>>, <<120>>}, lines \in SeqsOf(BlockLines, 1, MaxLines),
     closing \in {<<>>, <<Ch_lf>>} :
    LET content == first \o BlockText(lines) \o closing
    IN Start([kind |-> "prefix", lines |-> lines, content |-> content],
             ArgDoc(StrQuotes \o content \o StrQuotes),
             ArgDoc(StrQuotes \o content \o StrQuotes))

SpecPrefix == InitPrefix /\ [][Next]_vars

\* The least number of leading spaces and tabs over the lines with text.
MinIndent(lines) ==
  LET with == {i \in 1 .. Len(lines) : lines[i].text # <<>>}
  IN CHOOSE n \in {Len(lines[i].pad) : i \in with} :
       \A i \in with : n <= Len(lines[i].pad)

\* C26: the prefix length ReadStringBlockAfterQuotes computes is the least
\* number of leading spaces and tabs over the lines after the first that
\* hold a byte that is no white space; empty lines and lines of white
\* space do not lower it.
PrefixIsMinIndent ==
  given.kind = "prefix"
    /\ (\E i \in 1 .. Len(given.lines) : given.lines[i].text # <<>>) =>
      \E r \in {ReadStringBlockAfterQuotes(
                  given.content \o StrQuotes \o <<Ch_rparen, Ch_rbrace>>)} :
        r.err = nil /\ r.prefixLen = MinIndent(given.lines)

\* Where the claim and the code agree:
\* where every line after the first holds the two bytes xy and the closing
\* delimiter stands on a line of its own, it is the least indentation.
PrefixOfFullLines ==
  given.kind = "prefix"
    /\ (\A i \in 1 .. Len(given.lines) : Len(given.lines[i].text) = 2)
    /\ given.content[Len(given.content)] = Ch_lf =>
      \E r \in {ReadStringBlockAfterQuotes(
                  given.content \o StrQuotes \o <<Ch_rparen, Ch_rbrace>>)} :
        r.err = nil /\ r.prefixLen = MinIndent(given.lines)

\* A block string of an empty line and the line `  xy`, the closing
\* delimiter on its own line: the document is read and the prefix length is
\* 0, not 2.
EmptyLineLowersPrefix ==
  /\ given.kind = "prefix"
  /\ given.content = <<Ch_lf, Ch_lf, Ch_space, Ch_space, 120, 121, Ch_lf>>
  /\ pc = "done"
  /\ err = nil
  /\ ReadStringBlockAfterQuotes(
       given.content \o StrQuotes \o <<Ch_rparen, Ch_rbrace>>).prefixLen = 0


\* The bytes of s that are no space, tab or line break, in their order.
RECURSIVE NonWhite(_)
NonWhite(s) ==
  IF s = <<>> THEN <<>>
  ELSE IF Head(s) \in {Ch_space, Ch_tab, Ch_lf, Ch_cr} THEN NonWhite(Tail(s))
  ELSE <<Head(s)>> \o NonWhite(Tail(s))

\* C27: for every accepted block string the chunks written after the
\* String marker hold, in order, every byte of the content between the
\* delimiters that is no space, tab or line break: no line loses such a
\* byte and no line with one is dropped.
WrittenKeepsText ==
  given.kind = "prefix" =>
    \E v \in {Call("ReadValue", <<>>,
                   StrQuotes \o given.content \o StrQuotes
                     \o <<Ch_rparen, Ch_rbrace>>)} :
      v.err = nil =>
        /\ v.h # <<>>
        /\ Head(v.h) = HPrefValueString
        /\ NonWhite(Concat(Tail(v.h))) = NonWhite(given.content)

\* With the closing delimiter on a line of its own no such byte is lost.
WrittenKeepsTextClosedApart ==
  given.kind = "prefix" /\ given.content[Len(given.content)] = Ch_lf =>
    \E v \in {Call("ReadValue", <<>>,
                   StrQuotes \o given.content \o StrQuotes
                     \o <<Ch_rparen, Ch_rbrace>>)} :
      /\ v.err = nil
      /\ Head(v.h) = HPrefValueString
      /\ NonWhite(Concat(Tail(v.h))) = NonWhite(given.content)

\* The block string of the lines `  xy` and `x`, the closing delimiter
\* after the x: the document is read, `  xy` is written without its
\* indentation and the line x is not written.
LastLineDropped ==
  /\ given.kind = "prefix"
  /\ given.content = <<Ch_lf, Ch_space, Ch_space, 120, 121, Ch_lf, 120>>
  /\ pc = "done"
  /\ err = nil
  /\ Call("ReadValue", <<>>,
          StrQuotes \o given.content \o StrQuotes \o <<Ch_rparen, Ch_rbrace>>).h
       = <<HPrefValueString, <<120, 121, Ch_lf>>>>


(***************************************************************************)
(* Selection sets inside selection sets: under fields, under inline        *)
(* fragments with and without a type condition, side by side, and next to  *)
(* input objects, whose braces open no selection set.                      *)
(***************************************************************************)
MaxDepth == 2

\* Selections that hold no selection set.
PlainSelections ==
  {<<Tk.f>>, <<Tk.a, Tk.colon, Tk.f>>, <<Tk.dots, Tk.F>>,
   <<Tk.f, Tk.at, Tk.d>>,
   <<Tk.f, Tk.lparen, Tk.a, Tk.colon, Tk.lbrace, Tk.k, Tk.colon, Tk.one,
     Tk.rbrace, Tk.rparen>>}

\* What stands before the selection set of a selection that holds one.
SetHeads ==
  {<<Tk.g>>, <<Tk.dots, Tk.on, Tk.T>>, <<Tk.dots>>, <<Tk.dots, Tk.at, Tk.d>>}

\* The selection sets of at most depth selection sets inside one another,
\* each with the number of selection sets it holds, itself included.
RECURSIVE SelectionSets(_)
SelectionSets(depth) ==
  IF depth = 0
    THEN {[toks |-> <<Tk.lbrace>> \o p \o <<Tk.rbrace>>, sets |-> 1] :
            p \in PlainSelections}
    ELSE LET inner == SelectionSets(depth - 1)
         IN inner
              \cup {[toks |-> <<Tk.lbrace>> \o head \o s.toks \o <<Tk.rbrace>>,
                     sets |-> s.sets + 1] : head \in SetHeads, s \in inner}
              \cup {[toks |-> <<Tk.lbrace, Tk.g>> \o s.toks
                                \o <<Tk.dots, Tk.on, Tk.T>> \o t.toks
                                \o <<Tk.f, Tk.rbrace>>,
                     sets |-> s.sets + t.sets + 1] :
                      s \in SelectionSets(0), t \in SelectionSets(0)}

InitSelSet ==
  \E s \in SelectionSets(MaxDepth) :
    Start([kind |-> "selset", sets |-> s.sets], Doc(s.toks), Doc(s.toks))

SpecSelSet == InitSelSet /\ [][Next]_vars

\* The SelectionSet and SelectionSetEnd markers of the chunks w are one
\* pair that holds all the others, balanced: open counts the sets that are
\* open before w, seen tells whether a chunk of w came before.
RECURSIVE OnePairNested(_, _, _)
OnePairNested(w, open, seen) ==
  IF w = <<>> THEN open = 0 /\ seen
  ELSE IF seen /\ open = 0 THEN FALSE
  ELSE IF Head(w) = HPrefSelectionSet
    THEN OnePairNested(Tail(w), open + 1, TRUE)
  ELSE IF Head(w) = HPrefSelectionSetEnd
    THEN open > 0 /\ OnePairNested(Tail(w), open - 1, TRUE)
  ELSE open > 0 /\ OnePairNested(Tail(w), open, TRUE)

\* The chunks of w that are the marker m.
Marked(w, m) == Cardinality({i \in 1 .. Len(w) : w[i] = m})

\* C28: after a successful ReadSelectionSet the SelectionSet and
\* SelectionSetEnd markers written are balanced and nested, one pair for
\* every selection set of the source.
SelectionSetsBalanced ==
  given.kind = "selset" =>
    /\ \E r \in {Call("ReadSelectionSet", <<>>, a)} :
         /\ r.err = nil
         /\ r.s = <<>>
         /\ OnePairNested(r.h, 0, FALSE)
         /\ Marked(r.h, HPrefSelectionSet) = given.sets
         /\ Marked(r.h, HPrefSelectionSetEnd) = given.sets
    /\ pc = "done" => err = nil

\* `{g{a:f}...on T{f(a:{k:1})}f}`: three selection sets and an input
\* object, three pairs of markers.
SelectionSetsBalancedWitness ==
  /\ given.kind = "selset"
  /\ given.sets = 3
  /\ a = Doc(<<Tk.lbrace, Tk.g, Tk.lbrace, Tk.a, Tk.colon, Tk.f, Tk.rbrace,
               Tk.dots, Tk.on, Tk.T, Tk.lbrace, Tk.f, Tk.lparen, Tk.a,
               Tk.colon, Tk.lbrace, Tk.k, Tk.colon, Tk.one, Tk.rbrace,
               Tk.rparen, Tk.rbrace, Tk.f, Tk.rbrace>>)
  /\ pc = "done"
  /\ err = nil
  /\ Marked(Call("ReadSelectionSet", <<>>, a).h, HPrefSelectionSetEnd) = 3


(***************************************************************************)
(* Fragment definitions named on, and named nearly so.                     *)
(***************************************************************************)
\* on, On, onn, o, F
FragmentNames == {StrOn, <<79, 110>>, <<111, 110, 110>>, <<111>>, <<70>>}

\* The ignorable bytes between `fragment` and the name.
FragmentGaps ==
  {<<Ch_space>>, <<Ch_tab>>, <<Ch_lf>>, <<Ch_comma>>, <<Ch_hash, 99, Ch_lf>>}

\* What follows the name: ` on X{f}`, ` X{f}`, `{f}`, ` on on{f}`,
\* `@d on X{f}`, ` on`, nothing.
FragmentRests ==
  {<<Ch_space>> \o StrOn \o <<Ch_space, 88, Ch_lbrace, 102, Ch_rbrace>>,
   <<Ch_space, 88, Ch_lbrace, 102, Ch_rbrace>>,
   <<Ch_lbrace, 102, Ch_rbrace>>,
   <<Ch_space>> \o StrOn \o <<Ch_space>> \o StrOn
     \o <<Ch_lbrace, 102, Ch_rbrace>>,
   <<Ch_at, 100, Ch_space>> \o StrOn
     \o <<Ch_space, 88, Ch_lbrace, 102, Ch_rbrace>>,
   <<Ch_space>> \o StrOn,
   <<>>}

\* a is `fragment F` and what follows, b the same with the drawn name.
InitFragmentOn ==
  \E name \in FragmentNames, gap \in FragmentGaps, rest \in FragmentRests :
    Start([kind |-> "fragon", name |-> name, gap |-> gap],
          StrFragment \o gap \o <<70>> \o rest,
          StrFragment \o gap \o name \o rest)

SpecFragmentOn == InitFragmentOn /\ [][Next]_vars

\* C29: ReadDefinition returns ErrUnexpectedToken for every fragment
\* definition whose name is exactly `on`, writes nothing, and Compare
\* returns that error for it.
FragmentNamedOnRejected ==
  given.kind = "fragon" /\ given.name = StrOn =>
    /\ \E r \in {Call("ReadDefinition", <<>>, b)} :
         r.err = ErrUnexpectedToken /\ r.h = <<>>
    /\ pc = "done" /\ Accepts(a) => err = ErrUnexpectedToken

\* `fragment F on on{f}` is read, `fragment on on on{f}` is not:
\* ErrUnexpectedToken.
FragmentNamedOnRejectedWitness ==
  /\ given.kind = "fragon"
  /\ given.name = StrOn
  /\ b = StrFragment \o <<Ch_space>> \o StrOn \o <<Ch_space>> \o StrOn
           \o <<Ch_space>> \o StrOn \o <<Ch_lbrace, 102, Ch_rbrace>>
  /\ pc = "done"
  /\ Len(buffer) = 0
  /\ calls = <<"Reset", "Write", "Write", "Write", "Write", "Write", "Write",
               "Write", "Write", "Sum", "Reset">>
  /\ err = ErrUnexpectedToken


(***************************************************************************)
(* Definitions that begin with a name that is none of query, mutation,     *)
(* subscription and fragment.                                              *)
(***************************************************************************)
\* The first name of b, whether it begins with a keyword, and the start of
\* the document a it is compared with: for a name that begins with a
\* keyword, the keyword and the rest of the name as two tokens.
FirstNames ==
  {[word |-> StrQuery \o <<88>>, prefixed |-> TRUE,
    split |-> StrQuery \o <<Ch_space, 88>>],
   [word |-> StrQuery \o <<95, 49>>, prefixed |-> TRUE,
    split |-> StrQuery \o <<Ch_space, 95, 49>>],
   [word |-> StrMutation \o <<88>>, prefixed |-> TRUE,
    split |-> StrMutation \o <<Ch_space, 88>>],
   [word |-> StrSubscription \o <<115>>, prefixed |-> TRUE,
    split |-> StrSubscription \o <<Ch_space, 115>>],
   [word |-> StrFragment \o <<70>>, prefixed |-> TRUE,
    split |-> StrFragment \o <<Ch_space, 70>>],
   [word |-> <<81>> \o Tail(StrQuery), prefixed |-> FALSE,
    split |-> StrQuery],
   [word |-> SubSeq(StrQuery, 1, 4), prefixed |-> FALSE, split |-> StrQuery],
   [word |-> <<102, 111, 111>>, prefixed |-> FALSE, split |-> StrQuery],
   [word |-> <<116, 121, 112, 101>>, prefixed |-> FALSE,
    split |-> StrMutation],
   [word |-> SubSeq(StrFragment, 1, 4), prefixed |-> FALSE,
    split |-> StrSubscription]}

\* What follows the name: ` {f}`, `{f}`, ` on T {f}`, `@d{f}`,
\* `($v:T){f}`, ` Q{f}`.
FirstNameRests ==
  {<<Ch_space, Ch_lbrace, 102, Ch_rbrace>>,
   <<Ch_lbrace, 102, Ch_rbrace>>,
   <<Ch_space>> \o StrOn \o <<Ch_space, 84, Ch_space, Ch_lbrace, 102,
                              Ch_rbrace>>,
   <<Ch_at, 100, Ch_lbrace, 102, Ch_rbrace>>,
   <<Ch_lparen, Ch_dollar, 118, Ch_colon, 84, Ch_rparen, Ch_lbrace, 102,
     Ch_rbrace>>,
   <<Ch_space, 81, Ch_lbrace, 102, Ch_rbrace>>}

\* lead is the ignorable bytes before the definition.
InitFirstName ==
  \E n \in FirstNames, rest \in FirstNameRests,
     lead \in {<<>>, <<Ch_lf>>, <<Ch_hash, 99, Ch_lf>>} :
    Start([kind |-> "firstname", def |-> n.word \o rest,
           prefixed |-> n.prefixed],
          lead \o n.split \o rest, lead \o n.word \o rest)

SpecFirstName == InitFirstName /\ [][Next]_vars

\* C30: ReadDefinition returns ErrUnexpectedToken for every definition
\* whose first token is a name other than query, mutation, subscription
\* and fragment, the names that begin with one of these included.
FirstNameRejected ==
  given.kind = "firstname" =>
    /\ \E r \in {Call("ReadDefinition", <<>>, given.def)} :
         r.err = ErrUnexpectedToken
    /\ pc = "done" /\ Accepts(a) => err = ErrUnexpectedToken

\* The names that begin with no keyword are rejected, and nothing is
\* written for them.
FirstNameUnknownRejected ==
  given.kind = "firstname" /\ ~given.prefixed =>
    /\ \E r \in {Call("ReadDefinition", <<>>, given.def)} :
         r.err = ErrUnexpectedToken /\ r.h = <<>>
    /\ pc = "done" /\ Accepts(a) => err = ErrUnexpectedToken

\* `query X {f}` against `queryX {f}`: both are read, Compare returns nil.
KeywordPrefixAccepted ==
  /\ given.kind = "firstname"
  /\ a = StrQuery \o <<Ch_space, 88, Ch_space, Ch_lbrace, 102, Ch_rbrace>>
  /\ b = StrQuery \o <<88, Ch_space, Ch_lbrace, 102, Ch_rbrace>>
  /\ pc = "done"
  /\ err = nil

\* `fragment F on T {f}` against `fragmentF on T {f}`: nil as well.
FragmentPrefixAccepted ==
  /\ given.kind = "firstname"
  /\ b = StrFragment \o <<70, Ch_space>> \o StrOn
           \o <<Ch_space, 84, Ch_space, Ch_lbrace, 102, Ch_rbrace>>
  /\ pc = "done"
  /\ err = nil

====
